---- MODULE Spec2Model ----
(***************************************************************************)
(* Model of the joint ManipScore/OFI research framework.                   *)
(*                                                                         *)
(*   - the fixed-holding-period backtest (src/src/backtest/engine_4h.py)   *)
(*   - Filter- and Score-mode signal generation                            *)
(*     (src/src/joint_factors/joint_signals.py)                            *)
(*   - compute_max_drawdown (src/src/backtest/engine_4h.py)                *)
(*   - analyze_plateau_stability (src/src/analysis/oos_plateau_analysis.py)*)
(*   - load_oos_splits_config and substitute_variables                     *)
(*     (src/src/utils/config_loader.py)                                    *)
(*   - check_missing_rate (src/src/joint_data/validators.py)               *)
(*   - merge_manip_ofi (src/src/joint_data/merger.py)                      *)
(*   - build_merged_for_symbol (src/src/joint_data/merger.py)              *)
(*   - main of the merged-data build CLI (src/scripts/build_merged_data.py)*)
(*   - the fine-grid batch orchestrator                                    *)
(*     (src/scripts/run_all_symbols_fine_grid.py)                          *)
(*   - select_plateau_params (src/scripts/run_eth_core_grid_oos.py)         *)
(*   - the grid sweeps of src/scripts/run_eth_core_grid_oos.py,            *)
(*     run_score_oos_per_symbol.py and run_joint_score_grid.py             *)
(*   - with_log_level / LoggerContext (src/src/utils/logging_utils.py)      *)
(*   - normalize_ofi_columns and normalize_manip_columns                    *)
(*     (src/src/joint_data/loader.py)                                      *)
(*   - compute_manip_signal (src/src/joint_factors/manip_view.py) and       *)
(*     compute_ofi_signal (src/src/joint_factors/ofi_view.py)              *)
(*   - generate_recommendations (src/scripts/summarize_eth_core_oos.py)     *)
(*                                                                         *)
(* Python's 0-based positions are kept in the variables (bt_i, entry_idx,  *)
(* exit_idx); a table is a sequence, so bar k is element k + 1.            *)
(* Floating-point numbers are modelled by integers and by exact fractions  *)
(* [num, den] with den > 0; rounding is outside the model.                 *)
(***************************************************************************)
EXTENDS Integers, Sequences, FiniteSets, TLC

VARIABLES
    bt_pc,      \* position in run_simple_holding_backtest
    bt_in,      \* the caller's table: [rows, time_found, holding_col]
    bt_args,    \* the call's arguments
    bt_df,      \* the local table after date filtering (rows)
    bt_hold,    \* the holding_bars in effect
    bt_i,       \* the bar cursor i
    bt_trades,  \* the list trades
    bt_result,  \* the returned BacktestResult (or the exception raised)
    sg_pc,      \* position of the signal-generation call
    sg_in,      \* the caller's table: [cols, rows]
    sg_cfg,     \* the config object passed to the generator
    sg_out,     \* what the generator returned or raised
    dd_pc,      \* position of the compute_max_drawdown call
    dd_curve,   \* the equity curve passed in
    dd_result,  \* the value returned
    pa_pc,      \* position of the analyze_plateau_stability call
    pa_in,      \* its arguments: [train_df, test_df, sharpe_frac]
    pa_out,     \* what it returned or raised, with the local plateau_train
    oc_pc,      \* position in load_oos_splits_config
    oc_symbols, \* the symbols of the document, in document order
    oc_seen,    \* the splits of the symbols visited so far
    oc_result,  \* the configuration returned or the error raised
    sv_pc,      \* position of the substitute_variables call
    sv_in,      \* the arguments as they were at the call: [config, context]
    sv_config,  \* the caller's config mapping (the loaded document)
    sv_context, \* the caller's context mapping
    sv_out,     \* the value returned
    mr_pc,      \* position of the check_missing_rate call
    mr_in,      \* its arguments: [df, columns, threshold]
    mr_out,     \* the result returned
    mg_pc,      \* position of the merge_manip_ofi call
    mg_manip,   \* the ManipScore table passed in
    mg_ofi,     \* the OFI table passed in
    mg_out,     \* the merged table returned
    bm_pc,      \* position in build_merged_for_symbol
    bm_args,    \* its arguments: [symbol, validate]
    bm_merged,  \* the local merged table
    bm_results, \* validation_results, in order
    bm_log,     \* the warnings and errors logged, and the check results
    bm_files,   \* the files written: [path, table]
    bm_out,     \* what the call returned or raised
    cl_pc,      \* position in main of build_merged_data.py
    cl_symbols, \* the symbols to process, in order
    cl_dir_key, \* whether the paths config defines merged_4h_dir
    cl_attempts, \* the calls of build_merged_for_symbol made: [symbol, outcome]
    cl_results, \* the dict results: symbol -> status
    cl_exit,    \* the exit status of the process (None while running)
    fg_pc,      \* position in main of run_all_symbols_fine_grid.py
    fg_args,    \* the command line: [mode, symbols]
    fg_i,       \* 0-based index of the symbol being processed
    fg_running, \* the grid-search subprocesses running now
    fg_events,  \* the starts and exits of subprocesses so far
    fg_results, \* the dict results: mode -> symbol -> success
    sp_pc,      \* position in select_plateau_params
    sp_in,      \* its arguments: [table, config]
    sp_out,     \* what it returned (the selected parameters) or raised
    sw_pc,      \* position in the grid sweep
    sw_in,      \* the sweep: [script, n_combos]
    sw_i,       \* number of parameter combinations gone through
    sw_failed,  \* the combinations whose signal generation or backtest raised
    sw_results, \* the result rows appended so far
    ll_pc,      \* the code using with_log_level: running, or raising out of a block
    ll_in,      \* the logger's level before any block was entered
    ll_level,   \* logger.level
    ll_stack,   \* the LoggerContext objects of the blocks entered and not yet left
    ll_before,  \* the level seen just before each of those blocks was entered
    ll_last,    \* the last step taken on a block: [op, level]
    nz_pc,      \* position in normalize_ofi_columns / normalize_manip_columns
    nz_in,      \* the call: [which, df]
    nz_out,     \* the table returned, or the exception raised
    vw_pc,      \* position in compute_manip_signal / compute_ofi_signal
    vw_in,      \* the call: [which, df, threshold, direction]
    vw_out,     \* the signal series returned, or the exception raised
    rc_pc,      \* position in generate_recommendations
    rc_in,      \* the call: [plateau_stats, core, curve, max_test_drawdown]
    rc_out      \* the recommendations returned, in order

vars == <<bt_pc, bt_in, bt_args, bt_df, bt_hold, bt_i, bt_trades, bt_result,
          sg_pc, sg_in, sg_cfg, sg_out, dd_pc, dd_curve, dd_result,
          pa_pc, pa_in, pa_out, oc_pc, oc_symbols, oc_seen, oc_result,
          sv_pc, sv_in, sv_config, sv_context, sv_out,
          mr_pc, mr_in, mr_out,
          mg_pc, mg_manip, mg_ofi, mg_out,
          bm_pc, bm_args, bm_merged, bm_results, bm_log, bm_files, bm_out,
          cl_pc, cl_symbols, cl_dir_key, cl_attempts, cl_results, cl_exit,
          fg_pc, fg_args, fg_i, fg_running, fg_events, fg_results,
          sp_pc, sp_in, sp_out,
          sw_pc, sw_in, sw_i, sw_failed, sw_results,
          ll_pc, ll_in, ll_level, ll_stack, ll_before, ll_last,
          nz_pc, nz_in, nz_out,
          vw_pc, vw_in, vw_out,
          rc_pc, rc_in, rc_out>>

btVars == <<bt_pc, bt_in, bt_args, bt_df, bt_hold, bt_i, bt_trades, bt_result>>
sgVars == <<sg_pc, sg_in, sg_cfg, sg_out>>
ddVars == <<dd_pc, dd_curve, dd_result>>
paVars == <<pa_pc, pa_in, pa_out>>
ocVars == <<oc_pc, oc_symbols, oc_seen, oc_result>>
svVars == <<sv_pc, sv_in, sv_config, sv_context, sv_out>>
mrVars == <<mr_pc, mr_in, mr_out>>
mgVars == <<mg_pc, mg_manip, mg_ofi, mg_out>>
bmVars == <<bm_pc, bm_args, bm_merged, bm_results, bm_log, bm_files, bm_out>>
clVars == <<cl_pc, cl_symbols, cl_dir_key, cl_attempts, cl_results, cl_exit>>
fgVars == <<fg_pc, fg_args, fg_i, fg_running, fg_events, fg_results>>
spVars == <<sp_pc, sp_in, sp_out>>
swVars == <<sw_pc, sw_in, sw_i, sw_failed, sw_results>>
llVars == <<ll_pc, ll_in, ll_level, ll_stack, ll_before, ll_last>>
nzVars == <<nz_pc, nz_in, nz_out>>
vwVars == <<vw_pc, vw_in, vw_out>>
rcVars == <<rc_pc, rc_in, rc_out>>

\* What each entry point leaves alone: the variables of the other ones.
restBacktest ==
    <<sgVars, ddVars, paVars, ocVars, svVars, mrVars, mgVars, bmVars, clVars, fgVars, spVars, swVars, llVars, nzVars, vwVars, rcVars>>
restSignal ==
    <<btVars, ddVars, paVars, ocVars, svVars, mrVars, mgVars, bmVars, clVars, fgVars, spVars, swVars, llVars, nzVars, vwVars, rcVars>>
restDrawdown ==
    <<btVars, sgVars, paVars, ocVars, svVars, mrVars, mgVars, bmVars, clVars, fgVars, spVars, swVars, llVars, nzVars, vwVars, rcVars>>
restPlateau ==
    <<btVars, sgVars, ddVars, ocVars, svVars, mrVars, mgVars, bmVars, clVars, fgVars, spVars, swVars, llVars, nzVars, vwVars, rcVars>>
restOosConfig ==
    <<btVars, sgVars, ddVars, paVars, svVars, mrVars, mgVars, bmVars, clVars, fgVars, spVars, swVars, llVars, nzVars, vwVars, rcVars>>
restSubstitute ==
    <<btVars, sgVars, ddVars, paVars, ocVars, mrVars, mgVars, bmVars, clVars, fgVars, spVars, swVars, llVars, nzVars, vwVars, rcVars>>
restMissing ==
    <<btVars, sgVars, ddVars, paVars, ocVars, svVars, mgVars, bmVars, clVars, fgVars, spVars, swVars, llVars, nzVars, vwVars, rcVars>>
restMerge ==
    <<btVars, sgVars, ddVars, paVars, ocVars, svVars, mrVars, bmVars, clVars, fgVars, spVars, swVars, llVars, nzVars, vwVars, rcVars>>
restBuild ==
    <<btVars, sgVars, ddVars, paVars, ocVars, svVars, mrVars, mgVars, clVars, fgVars, spVars, swVars, llVars, nzVars, vwVars, rcVars>>
restCli ==
    <<btVars, sgVars, ddVars, paVars, ocVars, svVars, mrVars, mgVars, bmVars, fgVars, spVars, swVars, llVars, nzVars, vwVars, rcVars>>
restFineGrid ==
    <<btVars, sgVars, ddVars, paVars, ocVars, svVars, mrVars, mgVars, bmVars, clVars, spVars, swVars, llVars, nzVars, vwVars, rcVars>>
restSelect ==
    <<btVars, sgVars, ddVars, paVars, ocVars, svVars, mrVars, mgVars, bmVars, clVars, fgVars, swVars, llVars, nzVars, vwVars, rcVars>>
restSweep ==
    <<btVars, sgVars, ddVars, paVars, ocVars, svVars, mrVars, mgVars, bmVars, clVars, fgVars, spVars, llVars, nzVars, vwVars, rcVars>>
restLogLevel ==
    <<btVars, sgVars, ddVars, paVars, ocVars, svVars, mrVars, mgVars, bmVars, clVars, fgVars, spVars, swVars, nzVars, vwVars, rcVars>>
restNormalize ==
    <<btVars, sgVars, ddVars, paVars, ocVars, svVars, mrVars, mgVars, bmVars, clVars, fgVars, spVars, swVars, llVars, vwVars, rcVars>>
restView ==
    <<btVars, sgVars, ddVars, paVars, ocVars, svVars, mrVars, mgVars, bmVars, clVars, fgVars, spVars, swVars, llVars, nzVars, rcVars>>
restRecommend ==
    <<btVars, sgVars, ddVars, paVars, ocVars, svVars, mrVars, mgVars, bmVars, clVars, fgVars, spVars, swVars, llVars, nzVars, vwVars>>

-----------------------------------------------------------------------------
(* Bounds of the model *)

MaxBars == 3        \* longest table given to the backtest
MaxHold == 2        \* largest explicit holding_bars argument
MaxRows == 2        \* longest table given to the signal generators
MaxCurve == 5       \* longest equity curve given to compute_max_drawdown
MaxGrid == 2        \* most parameter combinations in a grid-result table
MaxChunks == 2      \* most chunks (tokens, literal pieces) in a config string
MaxCells == 5       \* most rows in a table given to check_missing_rate
MaxTime == 3        \* number of timestamps, and most rows of a factor table
MaxSymbols == 2     \* most symbols a batch CLI is given
MaxTrain == 3       \* most rows of a train grid given to select_plateau_params
MaxNest == 2        \* deepest nesting of with_log_level blocks
MaxTestCurve == 2   \* longest equity curve behind the core combination's test drawdown

-----------------------------------------------------------------------------
(* Shared helpers *)

\* None (an omitted optional argument) and NaN (a missing float), as integers
\* outside every range of values the model draws from.
None == -1
NaN == 99

SeqsUpTo(S, n) == UNION {[1..k -> S] : k \in 0..n}

Min2(a, b) == IF a <= b THEN a ELSE b

\* Exact fractions with a positive denominator.
Frac(n, d) == [num |-> n, den |-> d]
FracEq(a, b) == a.num * b.den = b.num * a.den
FracLt(a, b) == a.num * b.den < b.num * a.den

-----------------------------------------------------------------------------
(* run_simple_holding_backtest                                             *)

DefaultHoldingBars == 3
BpsPerUnit == 10000
RangeIndexStart == 0

Signals == {-1, 0, 1}
Closes == {100, 110}

\* A bar of the table: its index label (time), its signal and its close.
BtRow(t, s, c) == [time |-> t, signal |-> s, close |-> c]

\* Tables whose time index is 1..N in order.
BtTables ==
    {[k \in 1..Len(q) |-> BtRow(k, q[k][1], q[k][2])] :
        q \in SeqsUpTo(Signals \X Closes, MaxBars)}

\* (holding_bars argument, first value of the table's holding_bars column)
BtHoldChoices ==
    {<<None, None>>, <<None, 1>>} \cup {<<h, None>> : h \in 0..MaxHold}

\* (start_date, end_date, whether the time column or index is found)
BtDateChoices ==
    {<<None, None, TRUE>>, <<2, None, TRUE>>, <<None, 1, TRUE>>,
     <<2, 1, TRUE>>, <<2, 1, FALSE>>}

\* (cost_bps, initial_capital)
BtMoneyChoices == {<<5, 10000>>, <<0, 20000>>}

\* subset_df_by_date: an inclusive range filter on the time index; the table
\* is returned unfiltered when the time column is not found.
SubsetByDate(rows, start_date, end_date, time_found) ==
    IF ~time_found THEN rows
    ELSE SelectSeq(rows, LAMBDA r :
            /\ (start_date = None \/ r.time >= start_date)
            /\ (end_date = None \/ r.time <= end_date))

DateFilterRequested(args) == args.start_date # None \/ args.end_date # None

FilteredRows(in, args) ==
    IF DateFilterRequested(args)
    THEN SubsetByDate(in.rows, args.start_date, args.end_date, in.time_found)
    ELSE in.rows

\* One point of the equity curve, initial_capital * prod(1 + r) over the net
\* returns r of `factors`, kept as the product it denotes.
EquityPoint(capital, factors) == [capital |-> capital, factors |-> factors]

\* Variant: the zero-trade equity curve is built without index=[df.index[0]].
EmptyResultDefaultIndex(index, capital) ==
    [status |-> "ok",
     equity_index |-> <<RangeIndexStart>>,
     equity_values |-> <<EquityPoint(capital, <<>>)>>,
     trades |-> <<>>,
     stats |-> [n_trades |-> 0],
     stats_keys |-> {"n_trades"}]

\* The result of the two zero-trade return statements.
EmptyResult(index, capital) ==
    [status |-> "ok",
     equity_index |-> index,
     equity_values |-> <<EquityPoint(capital, <<>>)>>,
     trades |-> <<>>,
     stats |-> [n_trades |-> 0],
     stats_keys |-> {"n_trades"}]

RaisedResult(kind) ==
    [status |-> kind, equity_index |-> <<>>, equity_values |-> <<>>,
     trades |-> <<>>, stats |-> [n_trades |-> 0], stats_keys |-> {}]

FullStatsKeys ==
    {"n_trades", "total_return", "avg_return_per_trade", "std_return_per_trade",
     "sharpe_ratio", "win_rate", "max_drawdown", "avg_holding_bars"}

\* Bar k (0-based) of the local table.
Bar(k) == bt_df[k + 1]

\* Variant: the holding period is one bar too long.
ExitIndexOffByOne(i, holding_bars, n) == Min2(i + holding_bars + 1, n - 1)

ExitIndex(i, holding_bars, n) == Min2(i + holding_bars, n - 1)

GrossReturn(signal, entry_price, exit_price) ==
    IF signal > 0
    THEN Frac(exit_price - entry_price, entry_price)
    ELSE Frac(entry_price - exit_price, entry_price)

\* Variant: the cost is charged one way only.
NetReturnOneWay(gross_return, cost_bps) ==
    Frac(gross_return.num * BpsPerUnit - cost_bps * gross_return.den,
         gross_return.den * BpsPerUnit)

NetReturn(gross_return, cost_bps) ==
    Frac(gross_return.num * BpsPerUnit - 2 * cost_bps * gross_return.den,
         gross_return.den * BpsPerUnit)

\* Variant: the scan resumes at the exit bar itself.
NextCursorAtExit(exit_idx) == exit_idx

NextCursor(exit_idx) == exit_idx + 1

TradeRecord(i) ==
    LET signal == Bar(i).signal
        entry_idx == i
        entry_price == Bar(i).close
        exit_idx == ExitIndex(i, bt_hold, Len(bt_df))
        exit_price == Bar(exit_idx).close
        gross_return == GrossReturn(signal, entry_price, exit_price)
    IN  [entry_idx |-> entry_idx,
         exit_idx |-> exit_idx,
         entry_time |-> Bar(entry_idx).time,
         exit_time |-> Bar(exit_idx).time,
         signal |-> signal,
         entry_price |-> entry_price,
         exit_price |-> exit_price,
         gross_return |-> gross_return,
         net_return |-> NetReturn(gross_return, bt_args.cost_bps),
         holding_bars |-> exit_idx - entry_idx]

InitBacktestVars ==
    /\ bt_pc = "call"
    /\ \E rows \in BtTables, h \in BtHoldChoices, d \in BtDateChoices,
          m \in BtMoneyChoices :
          /\ bt_in = [rows |-> rows, time_found |-> d[3], holding_col |-> h[2]]
          /\ bt_args = [holding_bars |-> h[1], cost_bps |-> m[1],
                        initial_capital |-> m[2],
                        start_date |-> d[1], end_date |-> d[2]]
    /\ bt_df = <<>>
    /\ bt_hold = 0
    /\ bt_i = 0
    /\ bt_trades = <<>>
    /\ bt_result = RaisedResult("pending")

IdleBacktestVars ==
    /\ bt_pc = "idle"
    /\ bt_in = [rows |-> <<>>, time_found |-> TRUE, holding_col |-> None]
    /\ bt_args = [holding_bars |-> None, cost_bps |-> 5, initial_capital |-> 10000,
                  start_date |-> None, end_date |-> None]
    /\ bt_df = <<>>
    /\ bt_hold = 0
    /\ bt_i = 0
    /\ bt_trades = <<>>
    /\ bt_result = RaisedResult("pending")

\* Lines 122-131: the date filter leaves no row.
BtEmptyWindow ==
    /\ bt_pc = "call"
    /\ DateFilterRequested(bt_args)
    /\ Len(FilteredRows(bt_in, bt_args)) = 0
    /\ bt_result' = EmptyResult(<<RangeIndexStart>>, bt_args.initial_capital)
    /\ bt_pc' = "done"
    /\ UNCHANGED <<bt_in, bt_args, bt_df, bt_hold, bt_i, bt_trades>>
    /\ UNCHANGED restBacktest

\* Lines 136-138: holding_bars is read from row 0 of an empty table.
BtHoldingFromEmptyColumn ==
    /\ bt_pc = "call"
    /\ ~DateFilterRequested(bt_args)
    /\ Len(bt_in.rows) = 0
    /\ bt_args.holding_bars = None
    /\ bt_in.holding_col # None
    /\ bt_result' = RaisedResult("IndexError")
    /\ bt_pc' = "done"
    /\ UNCHANGED <<bt_in, bt_args, bt_df, bt_hold, bt_i, bt_trades>>
    /\ UNCHANGED restBacktest

\* Lines 122-153: filter, copy, choose the holding period, start the scan.
BtStart ==
    /\ bt_pc = "call"
    /\ LET rows == FilteredRows(bt_in, bt_args)
       IN  /\ ~(DateFilterRequested(bt_args) /\ Len(rows) = 0)
           /\ ~(Len(rows) = 0 /\ bt_args.holding_bars = None
                /\ bt_in.holding_col # None)
           /\ bt_df' = rows
    /\ bt_hold' = IF bt_args.holding_bars # None THEN bt_args.holding_bars
                  ELSE IF bt_in.holding_col # None THEN bt_in.holding_col
                  ELSE DefaultHoldingBars
    /\ bt_i' = 0
    /\ bt_trades' = <<>>
    /\ bt_pc' = "loop"
    /\ UNCHANGED <<bt_in, bt_args, bt_result>>
    /\ UNCHANGED restBacktest

\* Lines 157-190: a non-zero signal at the cursor opens and closes a trade.
BtTrade ==
    /\ bt_pc = "loop"
    /\ bt_i < Len(bt_df)
    /\ Bar(bt_i).signal # 0
    /\ bt_trades' = Append(bt_trades, TradeRecord(bt_i))
    /\ bt_i' = NextCursor(ExitIndex(bt_i, bt_hold, Len(bt_df)))
    /\ UNCHANGED <<bt_pc, bt_in, bt_args, bt_df, bt_hold, bt_result>>
    /\ UNCHANGED restBacktest

\* Lines 191-192: a zero signal advances the cursor by one.
BtFlat ==
    /\ bt_pc = "loop"
    /\ bt_i < Len(bt_df)
    /\ Bar(bt_i).signal = 0
    /\ bt_i' = bt_i + 1
    /\ UNCHANGED <<bt_pc, bt_in, bt_args, bt_df, bt_hold, bt_trades, bt_result>>
    /\ UNCHANGED restBacktest

\* Lines 194-203: no trade was generated.
BtFinishNoTrades ==
    /\ bt_pc = "loop"
    /\ bt_i >= Len(bt_df)
    /\ bt_trades = <<>>
    /\ bt_result' = IF Len(bt_df) = 0
                    THEN RaisedResult("IndexError")
                    ELSE EmptyResult(<<Bar(0).time>>, bt_args.initial_capital)
    /\ bt_pc' = "done"
    /\ UNCHANGED <<bt_in, bt_args, bt_df, bt_hold, bt_i, bt_trades>>
    /\ UNCHANGED restBacktest

\* Lines 205-231: equity curve and statistics of a non-empty trade list.
BtFinish ==
    /\ bt_pc = "loop"
    /\ bt_i >= Len(bt_df)
    /\ bt_trades # <<>>
    /\ bt_result' =
         [status |-> "ok",
          equity_index |-> [k \in 1..Len(bt_trades) |-> bt_trades[k].entry_time],
          equity_values |->
             [k \in 1..Len(bt_trades) |->
                EquityPoint(bt_args.initial_capital,
                            [j \in 1..k |-> bt_trades[j].net_return])],
          trades |-> bt_trades,
          stats |-> [n_trades |-> Len(bt_trades)],
          stats_keys |-> FullStatsKeys]
    /\ bt_pc' = "done"
    /\ UNCHANGED <<bt_in, bt_args, bt_df, bt_hold, bt_i, bt_trades>>
    /\ UNCHANGED restBacktest

NextBacktest ==
    \/ BtEmptyWindow
    \/ BtHoldingFromEmptyColumn
    \/ BtStart
    \/ BtTrade
    \/ BtFlat
    \/ BtFinishNoTrades
    \/ BtFinish

-----------------------------------------------------------------------------
(* generate_filter_signal and generate_score_signal                        *)

FilterRequired == {"ManipScore_z", "OFI_z", "OFI_abs_z"}
ScoreRequired == {"ManipScore_z", "OFI_z"}
Directions == {"reversal", "continuation", "momentum"}

ManipZValues == {-3, 1, 3, NaN}
OfiZValues == {-2, 1}
OfiAbsZValues == {0, 2}

\* Float comparisons: every comparison with NaN is False.
Gt(a, b) == a # NaN /\ b # NaN /\ a > b
Lt(a, b) == a # NaN /\ b # NaN /\ a < b

\* A row of a factor table; a column the table lacks holds NaN.
SgRow(mz, oz, oabs) ==
    [ManipScore_z |-> mz, OFI_z |-> oz, OFI_abs_z |-> oabs,
     composite_z |-> NaN, raw_signal |-> NaN, signal |-> NaN,
     holding_bars |-> NaN]

SgColumnChoices ==
    {FilterRequired, ScoreRequired, {"OFI_z", "OFI_abs_z"}}

SgRowsFor(cols) ==
    {SgRow(mz, oz, oabs) :
        mz \in (IF "ManipScore_z" \in cols THEN ManipZValues ELSE {NaN}),
        oz \in (IF "OFI_z" \in cols THEN OfiZValues ELSE {NaN}),
        oabs \in (IF "OFI_abs_z" \in cols THEN OfiAbsZValues ELSE {NaN})}

SgTables ==
    UNION {{[cols |-> cols, rows |-> rows] :
                rows \in SeqsUpTo(SgRowsFor(cols), MaxRows)} :
           cols \in SgColumnChoices}

FilterConfigs ==
    [mode : {"filter"}, ofi_abs_z_max : {1, 3}, manip_z_entry : {-1, 0, 2},
     direction : Directions, holding_bars : {DefaultHoldingBars}]

ScoreConfigs ==
    [mode : {"score"}, weight_manip : {-1, 2}, weight_ofi : {-1, 1},
     composite_z_entry : {-1, 0, 2},
     direction : Directions, holding_bars : {DefaultHoldingBars}]

\* df = df.copy(): the generator works on its own table, so nothing it adds
\* shows in the caller's table.
CallerTableAfter(caller, work) == caller

NoTable == [cols |-> {}, rows |-> <<>>]

SgReturn(work) == [status |-> "ok", returned |-> TRUE, table |-> work, work |-> work]
SgRaise(kind, work) ==
    [status |-> kind, returned |-> FALSE, table |-> NoTable, work |-> work]

\* df[col] = series: the column is added or overwritten, row by row.
WithColumn(df, col, series) ==
    [cols |-> df.cols \cup {col},
     rows |-> [k \in 1..Len(df.rows) |-> [df.rows[k] EXCEPT ![col] = series[k]]]]

\* A constant column, as in df['raw_signal'] = 0.
Constant(df, value) == [k \in 1..Len(df.rows) |-> value]

\* The column `col` as a sequence.
Column(df, col) == [k \in 1..Len(df.rows) |-> df.rows[k][col]]

\* Variant: the raw signal is not shifted.
Shift1Missing(series) == series

\* Series.shift(1): every value moves one bar later, bar 0 becomes NaN.
Shift1(series) ==
    [k \in 1..Len(series) |-> IF k = 1 THEN NaN ELSE series[k - 1]]

\* Series.fillna(value)
FillNa(series, value) ==
    [k \in 1..Len(series) |-> IF series[k] = NaN THEN value ELSE series[k]]

LaggedSignal(raw_signal) == FillNa(Shift1(raw_signal), 0)

\* df['signal'] = df['raw_signal'].shift(1).fillna(0); df['holding_bars'] = ...
WithSignalAndHolding(df, config) ==
    LET lagged == LaggedSignal(Column(df, "raw_signal"))
    IN  [cols |-> df.cols \cup {"signal", "holding_bars"},
         rows |-> [k \in 1..Len(df.rows) |->
                     [df.rows[k] EXCEPT !.signal = lagged[k],
                                        !.holding_bars = config.holding_bars]]]

\* Two masked assignments in program order onto a column initialised to 0:
\* rows of high_mask get high_value, then rows of low_mask get low_value.
TwoAssignments(high_mask, high_value, low_mask, low_value) ==
    IF low_mask THEN low_value ELSE IF high_mask THEN high_value ELSE 0

\* ofi_filter = df['OFI_abs_z'] < config.ofi_abs_z_max
OfiFilter(row, config) == Lt(row.OFI_abs_z, config.ofi_abs_z_max)

\* Variant: the direction is ignored and reversal is always applied.
FilterRawSignalReversalOnly(row, config) ==
    LET high == OfiFilter(row, config) /\ Gt(row.ManipScore_z, config.manip_z_entry)
        low == OfiFilter(row, config) /\ Lt(row.ManipScore_z, -config.manip_z_entry)
    IN  TwoAssignments(high, -1, low, 1)

FilterRawSignal(row, config) ==
    LET high == OfiFilter(row, config) /\ Gt(row.ManipScore_z, config.manip_z_entry)
        low == OfiFilter(row, config) /\ Lt(row.ManipScore_z, -config.manip_z_entry)
    IN  IF config.direction = "reversal"
        THEN TwoAssignments(high, -1, low, 1)
        ELSE TwoAssignments(high, 1, low, -1)

\* Variant: a plain else branch takes every other direction as continuation.
KnownDirectionAny(direction) == TRUE

KnownDirection(direction) == direction \in {"reversal", "continuation"}

generate_filter_signal(df, config) ==
    IF FilterRequired \ df.cols # {} THEN SgRaise("ValueError", df)
    ELSE LET zeroed == WithColumn(df, "raw_signal", Constant(df, 0))
             raw_signal == [k \in 1..Len(zeroed.rows) |->
                              FilterRawSignal(zeroed.rows[k], config)]
         IN  IF ~KnownDirection(config.direction)
             THEN SgRaise("ValueError", zeroed)
             ELSE SgReturn(WithSignalAndHolding(
                      WithColumn(zeroed, "raw_signal", raw_signal), config))

\* Variant: the two weights are applied to the wrong factors.
CompositeZSwapped(row, config) ==
    IF row.ManipScore_z = NaN \/ row.OFI_z = NaN THEN NaN
    ELSE config.weight_ofi * row.ManipScore_z + config.weight_manip * row.OFI_z

\* composite_z = weight_manip * ManipScore_z + weight_ofi * OFI_z
CompositeZ(row, config) ==
    IF row.ManipScore_z = NaN \/ row.OFI_z = NaN THEN NaN
    ELSE config.weight_manip * row.ManipScore_z + config.weight_ofi * row.OFI_z

ScoreRawSignal(row, config) ==
    LET high == Gt(row.composite_z, config.composite_z_entry)
        low == Lt(row.composite_z, -config.composite_z_entry)
    IN  IF config.direction = "reversal"
        THEN TwoAssignments(high, -1, low, 1)
        ELSE TwoAssignments(high, 1, low, -1)

generate_score_signal(df, config) ==
    IF ScoreRequired \ df.cols # {} THEN SgRaise("ValueError", df)
    ELSE LET composite_z == [k \in 1..Len(df.rows) |-> CompositeZ(df.rows[k], config)]
             scored == WithColumn(df, "composite_z", composite_z)
             zeroed == WithColumn(scored, "raw_signal", Constant(scored, 0))
             raw_signal == [k \in 1..Len(zeroed.rows) |->
                              ScoreRawSignal(zeroed.rows[k], config)]
         IN  IF ~KnownDirection(config.direction)
             THEN SgRaise("ValueError", zeroed)
             ELSE SgReturn(WithSignalAndHolding(
                      WithColumn(zeroed, "raw_signal", raw_signal), config))

NoOutcome == SgRaise("pending", NoTable)

\* normalize_ofi_columns, on the factor columns: OFI_abs_z is computed as
\* |OFI_z| only when the table has OFI_z and no OFI_abs_z; an OFI_abs_z column
\* supplied upstream is kept as it is.
AbsFloat(x) == IF x = NaN THEN NaN ELSE IF x < 0 THEN -x ELSE x

NormalizeOfiAbsZ(df) ==
    IF "OFI_z" \in df.cols /\ "OFI_abs_z" \notin df.cols
    THEN [cols |-> df.cols \cup {"OFI_abs_z"},
          rows |-> [k \in 1..Len(df.rows) |->
                      [df.rows[k] EXCEPT !.OFI_abs_z = AbsFloat(df.rows[k].OFI_z)]]]
    ELSE df

NoConfig == [mode |-> "none"]

InitSignalVars ==
    /\ sg_pc = "raw"
    /\ sg_in \in SgTables
    /\ sg_cfg = NoConfig
    /\ sg_out = NoOutcome

IdleSignalVars ==
    /\ sg_pc = "idle"
    /\ sg_in = NoTable
    /\ sg_cfg = NoConfig
    /\ sg_out = NoOutcome

\* The loader normalises the factor table before anything reads it.
SgNormalizeOfi ==
    /\ sg_pc = "raw"
    /\ sg_in' = NormalizeOfiAbsZ(sg_in)
    /\ sg_pc' = "call"
    /\ UNCHANGED <<sg_cfg, sg_out>>
    /\ UNCHANGED restSignal

\* generate_filter_signal(df, config) on the normalised table.
SgFilter ==
    /\ sg_pc = "call"
    /\ \E config \in FilterConfigs :
          /\ sg_cfg' = config
          /\ sg_out' = generate_filter_signal(sg_in, config)
    /\ sg_in' = CallerTableAfter(sg_in, sg_out'.work)
    /\ sg_pc' = "done"
    /\ UNCHANGED restSignal

\* generate_score_signal(df, config) on the normalised table.
SgScore ==
    /\ sg_pc = "call"
    /\ \E config \in ScoreConfigs :
          /\ sg_cfg' = config
          /\ sg_out' = generate_score_signal(sg_in, config)
    /\ sg_in' = CallerTableAfter(sg_in, sg_out'.work)
    /\ sg_pc' = "done"
    /\ UNCHANGED restSignal

NextSignal ==
    \/ SgNormalizeOfi
    \/ SgFilter
    \/ SgScore

-----------------------------------------------------------------------------
(* compute_max_drawdown                                                    *)

EquityValues == {80, 90, 100, 120, 150}

Max2(a, b) == IF a >= b THEN a ELSE b

\* The result of min() over an empty series: NaN, written 0/0.
NaNFrac == Frac(0, 0)

\* Variant: the peak is the maximum of the whole curve.
RECURSIVE WholeMax(_)
WholeMax(curve) ==
    IF Len(curve) = 1 THEN curve[1]
    ELSE Max2(curve[1], WholeMax(Tail(curve)))

ExpandingMaxWhole(curve) ==
    IF Len(curve) = 0 THEN <<>>
    ELSE [k \in 1..Len(curve) |-> WholeMax(curve)]

\* equity_curve.expanding().max(): the largest value up to each point.
RECURSIVE ExpandingMax(_)
ExpandingMax(curve) ==
    IF Len(curve) = 0 THEN <<>>
    ELSE IF Len(curve) = 1 THEN curve
    ELSE LET front == ExpandingMax(SubSeq(curve, 1, Len(curve) - 1))
         IN  Append(front, Max2(front[Len(front)], curve[Len(curve)]))

\* drawdown = (equity_curve - running_max) / running_max
Drawdown(curve, running_max) ==
    [k \in 1..Len(curve) |-> Frac(curve[k] - running_max[k], running_max[k])]

\* Series.min(): the smallest element, NaN for an empty series.
RECURSIVE SeriesMin(_)
SeriesMin(series) ==
    IF Len(series) = 0 THEN NaNFrac
    ELSE IF Len(series) = 1 THEN series[1]
    ELSE LET rest == SeriesMin(Tail(series))
         IN  IF FracLt(rest, series[1]) THEN rest ELSE series[1]

compute_max_drawdown(equity_curve) ==
    SeriesMin(Drawdown(equity_curve, ExpandingMax(equity_curve)))

InitDrawdownVars ==
    /\ dd_pc = "call"
    /\ dd_curve \in SeqsUpTo(EquityValues, MaxCurve)
    /\ dd_result = NaNFrac

IdleDrawdownVars ==
    /\ dd_pc = "idle"
    /\ dd_curve = <<>>
    /\ dd_result = NaNFrac

DdCompute ==
    /\ dd_pc = "call"
    /\ dd_result' = compute_max_drawdown(dd_curve)
    /\ dd_pc' = "done"
    /\ UNCHANGED dd_curve
    /\ UNCHANGED restDrawdown

NextDrawdown == DdCompute

-----------------------------------------------------------------------------
(* analyze_plateau_stability (src/src/analysis/oos_plateau_analysis.py)    *)
(*                                                                         *)
(* A grid-result table is [cols, rows]: the set of its column names and    *)
(* one row per parameter combination.  Sharpe ratios are in tenths.  The   *)
(* four parameter values of a row are one combination number, key; the     *)
(* rows of a grid sweep are distinct combinations, so row k has key k.     *)

param_cols == <<"w_manip", "w_ofi", "composite_z_entry", "holding_bars">>
ParamCols == {param_cols[k] : k \in 1..Len(param_cols)}
GridCols == ParamCols \cup {"n_trades", "sharpe"}

TradeCounts == {0, 3}
TrainSharpes == {-10, 7, 10}
TestSharpes == {-5, 5}
SharpeFracs == {Frac(7, 10), Frac(1, 1)}

GridRows(sharpes) ==
    UNION {[1..n -> [n_trades : TradeCounts, sharpe : sharpes]] : n \in 0..MaxGrid}

\* The rows of a sweep, each with the number of its parameter combination.
Keyed(rows) ==
    [k \in 1..Len(rows) |->
        [key |-> k, n_trades |-> rows[k].n_trades, sharpe |-> rows[k].sharpe]]

\* The column sets of the two tables: complete, or with columns left out.
GridColChoices ==
    {<<GridCols, GridCols>>,
     <<GridCols \ {"w_ofi"}, GridCols>>,
     <<GridCols, GridCols \ {"holding_bars"}>>,
     <<GridCols \ {"holding_bars"}, GridCols \ {"w_manip", "w_ofi"}>>,
     <<GridCols \ {"n_trades", "w_manip"}, GridCols>>,
     <<GridCols, GridCols \ {"sharpe"}>>}

PaReturn(analysis) == [kind |-> "return"] @@ analysis
PaError(tag, col, locals) == [kind |-> "error", error |-> tag, col |-> col] @@ locals
PaRaise(exc, col) == [kind |-> "raise", exc |-> exc, col |-> col]
NoLocals == [plateau_train |-> <<>>, plateau_threshold |-> NaNFrac]

\* df[df['n_trades'] > 0]
ValidRows(rows) == SelectSeq(rows, LAMBDA r : r.n_trades > 0)

\* Series.max() of a non-empty series
SeriesMax(series) ==
    CHOOSE m \in {series[k] : k \in 1..Len(series)} :
        \A k \in 1..Len(series) : series[k] <= m

SharpeOf(rows) == [k \in 1..Len(rows) |-> rows[k].sharpe]

\* sharpe_threshold = sharpe_frac * max_sharpe_train
SharpeThreshold(sharpe_frac, max_sharpe_train) ==
    Frac(sharpe_frac.num * max_sharpe_train, sharpe_frac.den)

PlateauKeepStrict(sharpe, threshold) == sharpe * threshold.den > threshold.num

\* valid_train['sharpe'] >= sharpe_threshold
PlateauKeep(sharpe, threshold) == sharpe * threshold.den >= threshold.num

PlateauRows(valid_train, threshold) ==
    SelectSeq(valid_train, LAMBDA r : PlateauKeep(r.sharpe, threshold))

FirstMissingParamTrainOnly(train_cols, test_cols) ==
    LET missing == {k \in 1..Len(param_cols) : param_cols[k] \notin train_cols}
    IN  IF missing = {} THEN 0
        ELSE CHOOSE k \in missing : \A j \in missing : k <= j

\* The first parameter column, in the order of param_cols, that one of the
\* two tables lacks; 0 when both have all four.
FirstMissingParam(train_cols, test_cols) ==
    LET missing == {k \in 1..Len(param_cols) :
                        param_cols[k] \notin train_cols \/ param_cols[k] \notin test_cols}
    IN  IF missing = {} THEN 0
        ELSE CHOOSE k \in missing : \A j \in missing : k <= j

\* valid_test[valid_test['param_key'].isin(plateau_train['param_key'])]
MatchPlateau(valid_test, plateau_train) ==
    SelectSeq(valid_test,
              LAMBDA r : \E k \in 1..Len(plateau_train) : plateau_train[k].key = r.key)

analyze_plateau_stability(train_df, test_df, sharpe_frac) ==
    IF "n_trades" \notin train_df.cols \/ "n_trades" \notin test_df.cols
    THEN PaRaise("KeyError", "n_trades")
    ELSE
    LET valid_train == ValidRows(train_df.rows)
        valid_test == ValidRows(test_df.rows)
    IN
    IF Len(valid_train) = 0 THEN PaError("no_valid_train_results", "", NoLocals)
    ELSE IF Len(valid_test) = 0 THEN PaError("no_valid_test_results", "", NoLocals)
    ELSE IF "sharpe" \notin train_df.cols THEN PaRaise("KeyError", "sharpe")
    ELSE
    LET max_sharpe_train == SeriesMax(SharpeOf(valid_train))
        sharpe_threshold == SharpeThreshold(sharpe_frac, max_sharpe_train)
        plateau_train == PlateauRows(valid_train, sharpe_threshold)
        locals == [plateau_train |-> plateau_train,
                   plateau_threshold |-> sharpe_threshold]
        missing == FirstMissingParam(train_df.cols, test_df.cols)
        plateau_test == MatchPlateau(valid_test, plateau_train)
    IN
    IF missing # 0 THEN PaError("missing_column", param_cols[missing], locals)
    ELSE IF Len(plateau_test) = 0 THEN PaError("no_plateau_in_test", "", locals)
    ELSE IF "sharpe" \notin test_df.cols THEN PaRaise("KeyError", "sharpe")
    ELSE PaReturn([train_max_sharpe |-> max_sharpe_train,
                   train_total_configs |-> Len(valid_train),
                   plateau_threshold |-> sharpe_threshold,
                   plateau_size |-> Len(plateau_train),
                   plateau_test_size |-> Len(plateau_test),
                   plateau_train |-> plateau_train])

InitPlateauVars ==
    /\ pa_pc = "call"
    /\ \E cols \in GridColChoices :
       \E train \in GridRows(TrainSharpes), test \in GridRows(TestSharpes) :
       \E sharpe_frac \in SharpeFracs :
           pa_in = [train_df |-> [cols |-> cols[1], rows |-> Keyed(train)],
                    test_df |-> [cols |-> cols[2], rows |-> Keyed(test)],
                    sharpe_frac |-> sharpe_frac]
    /\ pa_out = PaRaise("pending", "")

IdlePlateauVars ==
    /\ pa_pc = "idle"
    /\ pa_in = [train_df |-> [cols |-> {}, rows |-> <<>>],
                test_df |-> [cols |-> {}, rows |-> <<>>],
                sharpe_frac |-> NaNFrac]
    /\ pa_out = PaRaise("pending", "")

PaAnalyze ==
    /\ pa_pc = "call"
    /\ pa_out' = analyze_plateau_stability(pa_in.train_df, pa_in.test_df,
                                           pa_in.sharpe_frac)
    /\ pa_pc' = "done"
    /\ UNCHANGED pa_in
    /\ UNCHANGED restPlateau

NextPlateau == PaAnalyze

-----------------------------------------------------------------------------
(* load_oos_splits_config (src/src/utils/config_loader.py)                 *)
(*                                                                         *)
(* The loaded document maps each symbol to its splits; the loop visits the *)
(* symbols in document order.  An entry is read when the loop reaches it:  *)
(* oc_seen holds the entries visited so far.  A date is a day number; a    *)
(* field can also be absent, null (None), a string pandas cannot parse     *)
(* (Unparsable) or one pandas parses to NaT (the empty string, "NaT").     *)

Absent == -2
Unparsable == -3
NaT == 98

OosSymbols == {"BTCUSD", "ETHUSD"}
Days == 1..4
required_fields == <<"timeframe", "train_start", "train_end", "test_start", "test_end">>
DateFields == {"train_start", "train_end", "test_start", "test_end"}

\* The orders in which a document can list symbols without repeating one.
SymbolOrders ==
    {order \in SeqsUpTo(OosSymbols, Cardinality(OosSymbols)) :
        \A j, k \in 1..Len(order) : j # k => order[j] # order[k]}

Splits(tf, a, b, c, d) ==
    [timeframe |-> tf, train_start |-> a, train_end |-> b,
     test_start |-> c, test_end |-> d]

\* Entries whose four dates all parse, to a day or to NaT.
ParsedEntries ==
    {Splits(1, a, b, c, d) : a, b, c, d \in Days \cup {NaT}}

\* Entries with one field absent, null or unparsable: a well-ordered entry
\* and one with train_end after test_start, each with one field replaced.
BrokenEntries ==
    LET bases == {Splits(1, 1, 2, 3, 4), Splits(1, 1, 3, 2, 4)}
    IN  {[base EXCEPT ![f] = v] :
            base \in bases, f \in DateFields, v \in {Absent, None, Unparsable}}
        \cup {[base EXCEPT !.timeframe = Absent] : base \in bases}

SplitEntries == ParsedEntries \cup BrokenEntries

\* The first required field that is not in splits; 0 when all are there.
FirstAbsentField(splits) ==
    LET absent == {k \in 1..Len(required_fields) : splits[required_fields[k]] = Absent}
    IN  IF absent = {} THEN 0
        ELSE CHOOSE k \in absent : \A j \in absent : k <= j

\* pd.to_datetime raises on a string that is no date.
ToDatetimeRaises(splits) == \E f \in DateFields : splits[f] = Unparsable

\* a >= b on the values pd.to_datetime returned.  pd.to_datetime(None) is
\* None and None >= x raises TypeError; a comparison with NaT is False.
GeOutcome(a, b) ==
    IF a = None \/ b = None THEN "raise"
    ELSE IF a = NaT \/ b = NaT THEN "false"
    ELSE IF a >= b THEN "true" ELSE "false"

\* The three checks in the order of the code; the first that raises or
\* holds decides.  "" when the entry passes.
OrderingOutcome(splits) ==
    LET c1 == GeOutcome(splits.train_start, splits.train_end)
        c2 == GeOutcome(splits.test_start, splits.test_end)
        c3 == GeOutcome(splits.train_end, splits.test_start)
    IN  IF c1 = "raise" THEN "TypeError"
        ELSE IF c1 = "true" THEN "train_start must be before train_end"
        ELSE IF c2 = "raise" THEN "TypeError"
        ELSE IF c2 = "true" THEN "test_start must be before test_end"
        ELSE IF c3 = "raise" THEN "TypeError"
        ELSE IF c3 = "true" THEN "train_end must be before test_start (no overlap)"
        ELSE ""

OcPending == [kind |-> "pending", text |-> "", symbol |-> "", detail |-> ""]
OcReturned == [kind |-> "return", text |-> "", symbol |-> "", detail |-> ""]
\* raise ValueError(f"{text} ... {symbol} ...: {detail}")
OcValueError(text, symbol, detail) ==
    [kind |-> "raise", text |-> text, symbol |-> symbol, detail |-> detail]

InitOosConfigVars ==
    /\ oc_pc = "loop"
    /\ oc_symbols \in SymbolOrders
    /\ oc_seen = <<>>
    /\ oc_result = OcPending

IdleOosConfigVars ==
    /\ oc_pc = "idle"
    /\ oc_symbols = <<>>
    /\ oc_seen = <<>>
    /\ oc_result = OcPending

\* The symbol the loop is at.
OcSymbol == oc_symbols[Len(oc_seen) + 1]

OcAtEntry == oc_pc = "loop" /\ Len(oc_seen) < Len(oc_symbols)

\* if field not in splits: raise ValueError
OcMissingField ==
    /\ OcAtEntry
    /\ \E splits \in SplitEntries :
          /\ FirstAbsentField(splits) # 0
          /\ oc_seen' = Append(oc_seen, splits)
          /\ oc_result' = OcValueError("Missing required field", OcSymbol,
                                       required_fields[FirstAbsentField(splits)])
    /\ oc_pc' = "raised"
    /\ UNCHANGED oc_symbols
    /\ UNCHANGED restOosConfig

\* pd.to_datetime or a comparison raises inside the try block
OcDateError ==
    /\ OcAtEntry
    /\ \E splits \in SplitEntries :
          /\ FirstAbsentField(splits) = 0
          /\ ToDatetimeRaises(splits) \/ OrderingOutcome(splits) = "TypeError"
          /\ oc_seen' = Append(oc_seen, splits)
          /\ oc_result' = OcValueError("Invalid date format for symbol", OcSymbol,
                              IF ToDatetimeRaises(splits) THEN "to_datetime"
                              ELSE "TypeError")
    /\ oc_pc' = "raised"
    /\ UNCHANGED oc_symbols
    /\ UNCHANGED restOosConfig

\* one of the three ordering checks raises ValueError, which the except
\* clause of the same try block wraps
OcOrderingError ==
    /\ OcAtEntry
    /\ \E splits \in SplitEntries :
          /\ FirstAbsentField(splits) = 0
          /\ ~ToDatetimeRaises(splits)
          /\ OrderingOutcome(splits) \notin {"", "TypeError"}
          /\ oc_seen' = Append(oc_seen, splits)
          /\ oc_result' = OcValueError("Invalid date format for symbol", OcSymbol,
                                       OrderingOutcome(splits))
    /\ oc_pc' = "raised"
    /\ UNCHANGED oc_symbols
    /\ UNCHANGED restOosConfig

\* the entry passes every check; the loop goes on
OcAccept ==
    /\ OcAtEntry
    /\ \E splits \in SplitEntries :
          /\ FirstAbsentField(splits) = 0
          /\ ~ToDatetimeRaises(splits)
          /\ OrderingOutcome(splits) = ""
          /\ oc_seen' = Append(oc_seen, splits)
    /\ UNCHANGED <<oc_pc, oc_symbols, oc_result>>
    /\ UNCHANGED restOosConfig

\* return config
OcReturn ==
    /\ oc_pc = "loop"
    /\ Len(oc_seen) = Len(oc_symbols)
    /\ oc_pc' = "returned"
    /\ oc_result' = OcReturned
    /\ UNCHANGED <<oc_symbols, oc_seen>>
    /\ UNCHANGED restOosConfig

NextOosConfig ==
    \/ OcMissingField
    \/ OcDateError
    \/ OcOrderingError
    \/ OcAccept
    \/ OcReturn

-----------------------------------------------------------------------------
(* substitute_variables (src/src/utils/config_loader.py)                   *)
(*                                                                         *)
(* A string is a sequence of chunks: a chunk is a ${name} token or a piece *)
(* of literal text; tokens that would only arise by joining two pieces are *)
(* outside the model.  A value is [t, chunks, kids]: a string ("str") or   *)
(* another scalar ("int", chunks holding its str()) has chunks, a mapping  *)
(* ("dict") or a sequence ("list") has kids, the pairs [k, val] in order   *)
(* (k is "" in a list).                                                    *)

TokenOf == [root |-> "${root}", data_dir |-> "${data_dir}", user |-> "${user}"]
VarNames == DOMAIN TokenOf
Tokens == {TokenOf[n] : n \in VarNames}
NameOf(token) == CHOOSE n \in VarNames : TokenOf[n] = token

StrValue(chunks) == [t |-> "str", chunks |-> chunks, kids |-> <<>>]
IntValue(digits) == [t |-> "int", chunks |-> <<digits>>, kids |-> <<>>]
Pair(k, val) == [k |-> k, val |-> val]
DictValue(kids) == [t |-> "dict", chunks |-> <<>>, kids |-> kids]
ListValue(vals) ==
    [t |-> "list", chunks |-> <<>>,
     kids |-> [i \in 1..Len(vals) |-> Pair("", vals[i])]]

\* The values the document gives its keys root and data_dir (<<>>: no key).
RootChoices ==
    {<<>>, <<Pair("root", StrValue(<<"/base">>))>>,
     <<Pair("root", StrValue(<<"${data_dir}">>))>>,
     <<Pair("root", IntValue("7"))>>}
DataDirChoices ==
    {<<>>, <<Pair("data_dir", StrValue(<<"/d">>))>>,
     <<Pair("data_dir", StrValue(<<"${root}">>))>>}

\* The value of the key sub: a string of up to MaxChunks chunks, bare or
\* inside a sequence, a mapping or a sequence in a mapping; or a number.
SubStrings ==
    {StrValue(c) : c \in SeqsUpTo({"/data"} \cup Tokens, MaxChunks)}
SubChoices ==
    {IntValue("7")}
    \cup SubStrings
    \cup {ListValue(<<s, IntValue("7")>>) : s \in SubStrings}
    \cup {DictValue(<<Pair("path", s)>>) : s \in SubStrings}
    \cup {DictValue(<<Pair("paths", ListValue(<<s>>))>>) : s \in SubStrings}

\* The context argument: omitted, or a mapping the caller owns.
ContextChoices ==
    {[given |-> FALSE, map |-> <<>>],
     [given |-> TRUE, map |-> <<Pair("root", StrValue(<<"/ctx">>))>>],
     [given |-> TRUE, map |-> <<Pair("data_dir", StrValue(<<"/c">>))>>]}

HasKey(map, k) == \E i \in 1..Len(map) : map[i].k = k
Lookup(map, k) == map[CHOOSE i \in 1..Len(map) : map[i].k = k].val

\* context.update(config): a key of config overwrites the context's value
\* in place, a new key is appended.
RECURSIVE DictUpdate(_, _)
DictUpdate(context, config) ==
    IF config = <<>> THEN context
    ELSE LET kv == Head(config)
             next == IF HasKey(context, kv.k)
                     THEN [i \in 1..Len(context) |->
                              IF context[i].k = kv.k THEN kv ELSE context[i]]
                     ELSE Append(context, kv)
         IN  DictUpdate(next, Tail(config))

\* re.findall(pattern, obj): the names of the tokens of obj, in order.
FindAll(chunks) ==
    LET tokens == SelectSeq(chunks, LAMBDA c : c \in Tokens)
    IN  [i \in 1..Len(tokens) |-> NameOf(tokens[i])]

\* result.replace(token, var_value): every occurrence of the token
RECURSIVE StrReplace(_, _, _)
StrReplace(result, token, var_value) ==
    IF result = <<>> THEN <<>>
    ELSE (IF Head(result) = token THEN var_value ELSE <<Head(result)>>)
            \o StrReplace(Tail(result), token, var_value)

\* str(context[var_name])
Stringify(value) == value.chunks

\* for var_name in matches: if var_name in context: result = result.replace(...)
RECURSIVE ReplaceMatches(_, _, _)
ReplaceMatches(result, matches, context) ==
    IF matches = <<>> THEN result
    ELSE LET var_name == Head(matches)
             next == IF HasKey(context, var_name)
                     THEN StrReplace(result, TokenOf[var_name],
                                     Stringify(Lookup(context, var_name)))
                     ELSE result
         IN  ReplaceMatches(next, Tail(matches), context)

RECURSIVE Substitute(_, _)
Substitute(obj, context) ==
    IF obj.t = "str"
    THEN StrValue(ReplaceMatches(obj.chunks, FindAll(obj.chunks), context))
    ELSE IF obj.t \in {"dict", "list"}
    THEN [obj EXCEPT !.kids =
            [i \in 1..Len(obj.kids) |->
                Pair(obj.kids[i].k, Substitute(obj.kids[i].val, context))]]
    ELSE obj

\* What the call returns and what it leaves in the caller's context.
substitute_variables(config, context) ==
    LET merged == DictUpdate(context.map, config.kids)
    IN  [returned |-> Substitute(config, merged),
         context |-> [given |-> context.given,
                      map |-> IF context.given THEN merged ELSE <<>>]]

InitSubstituteVars ==
    /\ sv_pc = "call"
    /\ \E root \in RootChoices, data_dir \in DataDirChoices, sub \in SubChoices :
          sv_config = DictValue(root \o data_dir \o <<Pair("sub", sub)>>)
    /\ sv_context \in ContextChoices
    /\ sv_in = [config |-> sv_config, context |-> sv_context]
    /\ sv_out = DictValue(<<>>)

IdleSubstituteVars ==
    /\ sv_pc = "idle"
    /\ sv_config = DictValue(<<>>)
    /\ sv_context = [given |-> FALSE, map |-> <<>>]
    /\ sv_in = [config |-> sv_config, context |-> sv_context]
    /\ sv_out = DictValue(<<>>)

SvSubstitute ==
    /\ sv_pc = "call"
    /\ LET call == substitute_variables(sv_config, sv_context)
       IN  /\ sv_out' = call.returned
           /\ sv_context' = call.context
    /\ sv_pc' = "done"
    /\ UNCHANGED <<sv_config, sv_in>>
    /\ UNCHANGED restSubstitute

NextSubstitute == SvSubstitute

-----------------------------------------------------------------------------
(* check_missing_rate (src/src/joint_data/validators.py)                   *)
(*                                                                         *)
(* A table is [n, cols]: its number of rows and, for each column it has,   *)
(* the column's cells (NaN or a value).  Rates are exact fractions; 0 / 0  *)
(* is NaN, as numpy's division gives for an empty table.                   *)

MrColumns == <<"ManipScore_z", "OFI_z">>
MrColumnSet == {MrColumns[k] : k \in 1..Len(MrColumns)}
Cells == {NaN, 1}
Thresholds == {Frac(1, 5), Frac(2, 5)}

MrTables(rows) ==
    UNION {UNION {{[n |-> n, cols |-> cells] : cells \in [present -> [1..n -> Cells]]} :
                      present \in SUBSET MrColumnSet} :
               n \in 0..rows}

\* The columns argument: omitted, or the list of both names.
MrColumnArgs == {[given |-> FALSE, names |-> <<>>], [given |-> TRUE, names |-> MrColumns]}

\* df.columns.tolist(), in the order of MrColumns
ColumnList(df) == SelectSeq(MrColumns, LAMBDA c : c \in DOMAIN df.cols)

\* df[col].isna().sum() / len(df)
MissingRate(df, col) ==
    Frac(Cardinality({k \in 1..df.n : df.cols[col][k] = NaN}), df.n)

\* a > b on floats: False when a is NaN
RateGt(a, b) == a.den # 0 /\ a.num * b.den > b.num * a.den

\* max(values): the first value no later value is greater than
RECURSIVE PyMax(_)
PyMax(values) ==
    IF Len(values) = 1 THEN values[1]
    ELSE LET front == PyMax(SubSeq(values, 1, Len(values) - 1))
             last == values[Len(values)]
         IN  IF RateGt(last, front) THEN last ELSE front

\* threshold / 2
Half(threshold) == Frac(threshold.num, 2 * threshold.den)

ClassifyMissingInclusive(max_missing, threshold) ==
    IF ~RateGt(threshold, max_missing) THEN "FAIL"
    ELSE IF RateGt(max_missing, Half(threshold)) THEN "WARNING"
    ELSE "PASS"

\* if max_missing > threshold ... elif max_missing > threshold / 2 ... else
ClassifyMissing(max_missing, threshold) ==
    IF RateGt(max_missing, threshold) THEN "FAIL"
    ELSE IF RateGt(max_missing, Half(threshold)) THEN "WARNING"
    ELSE "PASS"

check_missing_rate(df, columns, threshold) ==
    LET names == IF columns.given THEN columns.names ELSE ColumnList(df)
        checked == SelectSeq(names, LAMBDA c : c \in DOMAIN df.cols)
        missing_rates == [k \in 1..Len(checked) |-> MissingRate(df, checked[k])]
        max_missing == IF Len(checked) > 0 THEN PyMax(missing_rates) ELSE Frac(0, 1)
    IN  [status |-> ClassifyMissing(max_missing, threshold),
         max_missing |-> max_missing,
         checked |-> checked]

MrNoResult == [status |-> "pending", max_missing |-> NaNFrac, checked |-> <<>>]

InitMissingVars ==
    /\ mr_pc = "call"
    /\ \E df \in MrTables(MaxCells), columns \in MrColumnArgs, threshold \in Thresholds :
          mr_in = [df |-> df, columns |-> columns, threshold |-> threshold]
    /\ mr_out = MrNoResult

IdleMissingVars ==
    /\ mr_pc = "idle"
    /\ mr_in = [df |-> [n |-> 0, cols |-> <<>>],
                columns |-> [given |-> FALSE, names |-> <<>>],
                threshold |-> NaNFrac]
    /\ mr_out = MrNoResult

MrCheck ==
    /\ mr_pc = "call"
    /\ mr_out' = check_missing_rate(mr_in.df, mr_in.columns, mr_in.threshold)
    /\ mr_pc' = "done"
    /\ UNCHANGED mr_in
    /\ UNCHANGED restMissing

NextMissing == MrCheck

-----------------------------------------------------------------------------
(* merge_manip_ofi (src/src/joint_data/merger.py), default arguments       *)
(*                                                                         *)
(* A normalized factor table is a sequence of rows [time, close], in any   *)
(* row order, no time appearing twice; times are numbers 1..MaxTime.       *)

MergeTimes == 1..MaxTime
ManipCloses == {100}
OfiCloses == {100, 110}

UniqueTimes(rows) ==
    \A j, k \in 1..Len(rows) : j # k => rows[j].time # rows[k].time

FactorTables(closes) ==
    {rows \in SeqsUpTo([time : MergeTimes, close : closes], MaxTime) : UniqueTimes(rows)}

\* pd.merge(manip_df, ofi_df, on='time', how='inner', suffixes=...): one row
\* per pair of rows with equal time, in the order of the left table's rows.
RECURSIVE InnerMerge(_, _)
InnerMerge(manip_df, ofi_df) ==
    IF manip_df = <<>> THEN <<>>
    ELSE LET left == Head(manip_df)
             matching == SelectSeq(ofi_df, LAMBDA r : r.time = left.time)
         IN  [k \in 1..Len(matching) |->
                 [time |-> left.time, close_manip |-> left.close,
                  close_ofi |-> matching[k].close]]
             \o InnerMerge(Tail(manip_df), ofi_df)

\* max_diff > 1e-6: some row's two close prices differ
OhlcMismatch(merged) ==
    \E k \in 1..Len(merged) : merged[k].close_manip # merged[k].close_ofi

\* merged[col] = merged[col_ofi]; drop col_manip and col_ofi
KeepOfi(merged) ==
    [k \in 1..Len(merged) |-> [time |-> merged[k].time, close |-> merged[k].close_ofi]]

SortIndexKeepOrder(rows) == rows

\* merged.sort_index(): rows by ascending time, equal times in row order
RECURSIVE SortIndex(_)
SortIndex(rows) ==
    IF rows = <<>> THEN <<>>
    ELSE LET first == CHOOSE k \in 1..Len(rows) :
                          \A j \in 1..Len(rows) :
                              \/ rows[k].time < rows[j].time
                              \/ rows[k].time = rows[j].time /\ k <= j
             others == [j \in 1..(Len(rows) - 1) |->
                           IF j < first THEN rows[j] ELSE rows[j + 1]]
         IN  <<rows[first]>> \o SortIndex(others)

merge_manip_ofi(manip_df, ofi_df) ==
    LET merged == InnerMerge(manip_df, ofi_df)
    IN  [rows |-> SortIndex(KeepOfi(merged)),
         warned |-> OhlcMismatch(merged)]

InitMergeVars ==
    /\ mg_pc = "call"
    /\ mg_manip \in FactorTables(ManipCloses)
    /\ mg_ofi \in FactorTables(OfiCloses)
    /\ mg_out = [rows |-> <<>>, warned |-> FALSE]

IdleMergeVars ==
    /\ mg_pc = "idle"
    /\ mg_manip = <<>>
    /\ mg_ofi = <<>>
    /\ mg_out = [rows |-> <<>>, warned |-> FALSE]

MgMerge ==
    /\ mg_pc = "call"
    /\ mg_out' = merge_manip_ofi(mg_manip, mg_ofi)
    /\ mg_pc' = "done"
    /\ UNCHANGED <<mg_manip, mg_ofi>>
    /\ UNCHANGED restMerge

NextMerge == MgMerge

-----------------------------------------------------------------------------
(* build_merged_for_symbol (src/src/joint_data/merger.py) with             *)
(* validate_data_quality (src/src/joint_data/validators.py)                *)
(*                                                                         *)
(* The merged table is whatever the merge returned: [n, cols, index,       *)
(* datetime], where cols gives the cells of the columns it has among       *)
(* close (open, high and low go with it), ManipScore_z and OFI_z, index is *)
(* the sorted time index in units of the bar length (equal neighbours are  *)
(* duplicates, a step of 2 is a gap) and datetime tells whether it is a    *)
(* DatetimeIndex.  Only the number of missing cells of a column matters,   *)
(* so the missing cells of a column are its first ones.                    *)

BuildSymbols == {"BTCUSD"}
required_cols == <<"close", "ManipScore_z", "OFI_z">>
key_cols == <<"ManipScore_z", "OFI_z", "OFI_abs_z", "close">>
DefaultThreshold == Frac(2, 10)

\* A column of n cells of which the first m are missing.
ColumnMissing(n, m) == [k \in 1..n |-> IF k <= m THEN NaN ELSE 1]

\* The time index 1, 1 + steps[1], ...: n values, sorted.
RECURSIVE IndexFrom(_, _)
IndexFrom(start, steps) ==
    IF steps = <<>> THEN <<start>>
    ELSE <<start>> \o IndexFrom(start + Head(steps), Tail(steps))

MergedIndexes(n) ==
    IF n = 0 THEN {<<>>}
    ELSE {IndexFrom(1, steps) : steps \in [1..(n - 1) -> {0, 1, 2}]}

MergedTables(rows) ==
    UNION {
      {[n |-> n,
        cols |-> [c \in present |->
                     ColumnMissing(n, IF c = "ManipScore_z" THEN m ELSE 0)],
        index |-> index,
        datetime |-> datetime] :
           present \in SUBSET {"close", "ManipScore_z", "OFI_z"},
           m \in 0..n, index \in MergedIndexes(n), datetime \in BOOLEAN} :
      n \in 0..rows}

NoTableBuilt == [n |-> 0, cols |-> <<>>, index |-> <<>>, datetime |-> FALSE]

\* check_column_existence(df, required_cols)
check_column_existence(df, required_columns) ==
    IF \E k \in 1..Len(required_columns) : required_columns[k] \notin DOMAIN df.cols
    THEN "FAIL" ELSE "PASS"

\* time_diffs > expected_diff * (1 + tolerance), tolerance 0.1
IsGap(diff) == diff * 10 > 11

\* check_time_continuity(df): FAIL without a DatetimeIndex, WARNING when
\* more than 5% of the rows follow a gap, else PASS
check_time_continuity(df) ==
    IF ~df.datetime THEN "FAIL"
    ELSE LET n_gaps == Cardinality({k \in 2..df.n :
                                        IsGap(df.index[k] - df.index[k - 1])})
         IN  IF n_gaps > 0 /\ n_gaps * 100 > 5 * df.n THEN "WARNING" ELSE "PASS"

\* df.index.duplicated().sum(): values equal to an earlier one
DuplicateCount(df) ==
    Cardinality({k \in 2..df.n : \E j \in 1..(k - 1) : df.index[j] = df.index[k]})

\* The four checks, in the order the results are stored and logged.
validate_data_quality(df) ==
    <<[check |-> "required_columns",
       status |-> check_column_existence(df, required_cols)],
      [check |-> "missing_rate",
       status |-> check_missing_rate(df, [given |-> TRUE, names |-> key_cols],
                                     DefaultThreshold).status],
      [check |-> "time_continuity", status |-> check_time_continuity(df)],
      [check |-> "duplicates",
       status |-> IF DuplicateCount(df) > 0 THEN "FAIL" ELSE "PASS"]>>

\* logger.info on PASS, logger.warning on WARNING, logger.error otherwise
LogLevel(status) ==
    IF status = "PASS" THEN "info"
    ELSE IF status = "WARNING" THEN "warning"
    ELSE "error"

LogValidation(results) ==
    [k \in 1..Len(results) |->
        [level |-> LogLevel(results[k].status), about |-> results[k].check]]

WriteParquetNothing(files, output_file, table) == files

\* write_parquet(merged, output_file): the file now holds the table
WriteParquet(files, output_file, table) ==
    files \cup {[path |-> output_file, table |-> table]}

\* symbol_timeframe_merged.parquet in the output directory
OutputFile(symbol) == <<symbol, "4H", "merged.parquet">>

BmPending == [kind |-> "pending", table |-> NoTableBuilt]
BmReturned(table) == [kind |-> "return", table |-> table]
BmFileNotFound == [kind |-> "FileNotFoundError", table |-> NoTableBuilt]

InitBuildVars ==
    /\ bm_pc = "load_ofi"
    /\ bm_args \in [symbol : BuildSymbols, validate : BOOLEAN]
    /\ bm_merged = NoTableBuilt
    /\ bm_results = <<>>
    /\ bm_log = <<>>
    /\ bm_files = {}
    /\ bm_out = BmPending

IdleBuildVars ==
    /\ bm_pc = "idle"
    /\ bm_args = [symbol |-> "", validate |-> FALSE]
    /\ bm_merged = NoTableBuilt
    /\ bm_results = <<>>
    /\ bm_log = <<>>
    /\ bm_files = {}
    /\ bm_out = BmPending

\* load_ofi_4h and normalize_ofi_columns succeed
BmLoadOfi ==
    /\ bm_pc = "load_ofi"
    /\ bm_pc' = "load_manip"
    /\ UNCHANGED <<bm_args, bm_merged, bm_results, bm_log, bm_files, bm_out>>
    /\ UNCHANGED restBuild

\* load_ofi_4h raises FileNotFoundError: logged and raised again
BmOfiNotFound ==
    /\ bm_pc = "load_ofi"
    /\ bm_log' = Append(bm_log, [level |-> "error", about |-> "Failed to load OFI data"])
    /\ bm_out' = BmFileNotFound
    /\ bm_pc' = "raised"
    /\ UNCHANGED <<bm_args, bm_merged, bm_results, bm_files>>
    /\ UNCHANGED restBuild

\* load_manip_4h and normalize_manip_columns succeed
BmLoadManip ==
    /\ bm_pc = "load_manip"
    /\ bm_pc' = "merge"
    /\ UNCHANGED <<bm_args, bm_merged, bm_results, bm_log, bm_files, bm_out>>
    /\ UNCHANGED restBuild

\* load_manip_4h raises FileNotFoundError: logged and raised again
BmManipNotFound ==
    /\ bm_pc = "load_manip"
    /\ bm_log' = Append(bm_log, [level |-> "error",
                                 about |-> "Failed to load ManipScore data"])
    /\ bm_out' = BmFileNotFound
    /\ bm_pc' = "raised"
    /\ UNCHANGED <<bm_args, bm_merged, bm_results, bm_files>>
    /\ UNCHANGED restBuild

\* merged = merge_manip_ofi(manip_df, ofi_df), then the metadata columns
BmMerge ==
    /\ bm_pc = "merge"
    /\ bm_merged' \in MergedTables(MaxCells)
    /\ bm_pc' = "validate"
    /\ UNCHANGED <<bm_args, bm_results, bm_log, bm_files, bm_out>>
    /\ UNCHANGED restBuild

\* if validate: run the four checks and log each result
BmValidate ==
    /\ bm_pc = "validate"
    /\ bm_args.validate
    /\ bm_results' = validate_data_quality(bm_merged)
    /\ bm_log' = bm_log \o LogValidation(validate_data_quality(bm_merged))
    /\ bm_pc' = "save"
    /\ UNCHANGED <<bm_args, bm_merged, bm_files, bm_out>>
    /\ UNCHANGED restBuild

\* validate is False
BmSkipValidation ==
    /\ bm_pc = "validate"
    /\ ~bm_args.validate
    /\ bm_pc' = "save"
    /\ UNCHANGED <<bm_args, bm_merged, bm_results, bm_log, bm_files, bm_out>>
    /\ UNCHANGED restBuild

\* ensure_dir, write_parquet, return merged
BmSave ==
    /\ bm_pc = "save"
    /\ bm_files' = WriteParquet(bm_files, OutputFile(bm_args.symbol), bm_merged)
    /\ bm_out' = BmReturned(bm_merged)
    /\ bm_pc' = "returned"
    /\ UNCHANGED <<bm_args, bm_merged, bm_results, bm_log>>
    /\ UNCHANGED restBuild

NextBuild ==
    \/ BmLoadOfi
    \/ BmOfiNotFound
    \/ BmLoadManip
    \/ BmManipNotFound
    \/ BmMerge
    \/ BmValidate
    \/ BmSkipValidation
    \/ BmSave

-----------------------------------------------------------------------------
(* main of the merged-data build CLI (src/scripts/build_merged_data.py)    *)
(*                                                                         *)
(* The outcome of build_merged_for_symbol for a symbol is known when the   *)
(* loop calls it: it returns, raises FileNotFoundError or raises another   *)
(* Exception.  The paths configuration may or may not define the key       *)
(* merged_4h_dir, for which build_merged_for_symbol has a default.         *)

CliSymbols == {"BTCUSD", "ETHUSD"}
BuildOutcomes == {"returned", "FileNotFoundError", "Exception"}
ExitSuccess == 0
ExitFailure == 1

\* results[symbol] = {...}: a later attempt of the same symbol replaces the
\* earlier entry
Record(results, symbol, status) == (symbol :> status) @@ results

\* n_failed = len(results) - n_success
FailedCount(results) ==
    Cardinality(DOMAIN results)
        - Cardinality({s \in DOMAIN results : results[s] = "SUCCESS"})

\* return 0 if n_failed == 0 else 1
ExitCode(n_failed) == IF n_failed = 0 THEN ExitSuccess ELSE ExitFailure

InitCliVars ==
    /\ cl_pc = "loop"
    /\ cl_symbols \in SeqsUpTo(CliSymbols, MaxSymbols)
    /\ cl_dir_key \in BOOLEAN
    /\ cl_attempts = <<>>
    /\ cl_results = <<>>
    /\ cl_exit = None

IdleCliVars ==
    /\ cl_pc = "idle"
    /\ cl_symbols = <<>>
    /\ cl_dir_key = FALSE
    /\ cl_attempts = <<>>
    /\ cl_results = <<>>
    /\ cl_exit = None

ClSymbol == cl_symbols[Len(cl_attempts) + 1]
ClInLoop == cl_pc = "loop" /\ Len(cl_attempts) < Len(cl_symbols)

\* build_merged_for_symbol returns
ClSuccess ==
    /\ ClInLoop
    /\ cl_attempts' = Append(cl_attempts, [symbol |-> ClSymbol, outcome |-> "returned"])
    /\ cl_results' = Record(cl_results, ClSymbol, "SUCCESS")
    /\ UNCHANGED <<cl_pc, cl_symbols, cl_dir_key, cl_exit>>
    /\ UNCHANGED restCli

\* except FileNotFoundError
ClDataNotFound ==
    /\ ClInLoop
    /\ cl_attempts' = Append(cl_attempts,
                             [symbol |-> ClSymbol, outcome |-> "FileNotFoundError"])
    /\ cl_results' = Record(cl_results, ClSymbol, "FAILED")
    /\ UNCHANGED <<cl_pc, cl_symbols, cl_dir_key, cl_exit>>
    /\ UNCHANGED restCli

\* except Exception
ClError ==
    /\ ClInLoop
    /\ cl_attempts' = Append(cl_attempts, [symbol |-> ClSymbol, outcome |-> "Exception"])
    /\ cl_results' = Record(cl_results, ClSymbol, "ERROR")
    /\ UNCHANGED <<cl_pc, cl_symbols, cl_dir_key, cl_exit>>
    /\ UNCHANGED restCli

\* the summary, then sys.exit(0 if n_failed == 0 else 1)
ClExit ==
    /\ cl_pc = "loop"
    /\ Len(cl_attempts) = Len(cl_symbols)
    /\ cl_dir_key
    /\ cl_exit' = ExitCode(FailedCount(cl_results))
    /\ cl_pc' = "exited"
    /\ UNCHANGED <<cl_symbols, cl_dir_key, cl_attempts, cl_results>>
    /\ UNCHANGED restCli

\* load_paths_config()['merged_4h_dir'] raises KeyError in the summary: the
\* exception leaves main and the interpreter exits with status 1
ClSummaryKeyError ==
    /\ cl_pc = "loop"
    /\ Len(cl_attempts) = Len(cl_symbols)
    /\ ~cl_dir_key
    /\ cl_exit' = ExitFailure
    /\ cl_pc' = "exited"
    /\ UNCHANGED <<cl_symbols, cl_dir_key, cl_attempts, cl_results>>
    /\ UNCHANGED restCli

NextCli ==
    \/ ClSuccess
    \/ ClDataNotFound
    \/ ClError
    \/ ClExit
    \/ ClSummaryKeyError

-----------------------------------------------------------------------------
(* The fine-grid batch orchestrator                                        *)
(* (src/scripts/run_all_symbols_fine_grid.py)                              *)
(*                                                                         *)
(* subprocess.run starts the child and blocks until it has exited: the     *)
(* start and the exit of a child are two steps, with the orchestrator      *)
(* waiting in between.  fg_events is the history of starts and exits.      *)

GridModes == {"filter", "score", "both"}
ReturnCodes == {0, 1}

RunsFilterOnly(mode) == mode = "filter"

\* args.mode in ['filter', 'both']
RunsFilter(mode) == mode \in {"filter", "both"}

\* args.mode in ['score', 'both']
RunsScore(mode) == mode \in {"score", "both"}

Job(symbol, grid) == [symbol |-> symbol, grid |-> grid]
Started(job) == [ev |-> "start", job |-> job, returncode |-> None]
Exited(job, returncode) == [ev |-> "exit", job |-> job, returncode |-> returncode]

InitFineGridVars ==
    /\ fg_pc = "filter"
    /\ fg_args \in [mode : GridModes, symbols : SeqsUpTo(CliSymbols, MaxSymbols)]
    /\ fg_i = 0
    /\ fg_running = {}
    /\ fg_events = <<>>
    /\ fg_results = [filter |-> <<>>, score |-> <<>>]

IdleFineGridVars ==
    /\ fg_pc = "idle"
    /\ fg_args = [mode |-> "", symbols |-> <<>>]
    /\ fg_i = 0
    /\ fg_running = {}
    /\ fg_events = <<>>
    /\ fg_results = [filter |-> <<>>, score |-> <<>>]

\* The symbol of the current iteration of "for symbol in symbols_to_run".
FgSymbol == fg_args.symbols[fg_i + 1]
FgInLoop == fg_i < Len(fg_args.symbols)

\* run_filter_grid: subprocess.run starts run_joint_filter_grid.py
FgStartFilter ==
    /\ fg_pc = "filter" /\ FgInLoop
    /\ RunsFilter(fg_args.mode)
    /\ fg_running' = fg_running \cup {Job(FgSymbol, "filter")}
    /\ fg_events' = Append(fg_events, Started(Job(FgSymbol, "filter")))
    /\ fg_pc' = "wait_filter"
    /\ UNCHANGED <<fg_args, fg_i, fg_results>>
    /\ UNCHANGED restFineGrid

\* the mode is 'score': no filter grid for this symbol
FgSkipFilter ==
    /\ fg_pc = "filter" /\ FgInLoop
    /\ ~RunsFilter(fg_args.mode)
    /\ fg_pc' = "score"
    /\ UNCHANGED <<fg_args, fg_i, fg_running, fg_events, fg_results>>
    /\ UNCHANGED restFineGrid

\* the child exits; run_filter_grid returns returncode == 0, which main
\* stores in results['filter'][symbol]
FgFilterExit ==
    /\ fg_pc = "wait_filter"
    /\ \E returncode \in ReturnCodes :
          /\ fg_events' = Append(fg_events, Exited(Job(FgSymbol, "filter"), returncode))
          /\ fg_results' = [fg_results EXCEPT
                               !.filter = (FgSymbol :> (returncode = 0)) @@ @]
    /\ fg_running' = fg_running \ {Job(FgSymbol, "filter")}
    /\ fg_pc' = "score"
    /\ UNCHANGED <<fg_args, fg_i>>
    /\ UNCHANGED restFineGrid

\* run_score_grid: subprocess.run starts run_joint_score_grid.py
FgStartScore ==
    /\ fg_pc = "score" /\ FgInLoop
    /\ RunsScore(fg_args.mode)
    /\ fg_running' = fg_running \cup {Job(FgSymbol, "score")}
    /\ fg_events' = Append(fg_events, Started(Job(FgSymbol, "score")))
    /\ fg_pc' = "wait_score"
    /\ UNCHANGED <<fg_args, fg_i, fg_results>>
    /\ UNCHANGED restFineGrid

\* the mode is 'filter': no score grid; on to the next symbol
FgSkipScore ==
    /\ fg_pc = "score" /\ FgInLoop
    /\ ~RunsScore(fg_args.mode)
    /\ fg_i' = fg_i + 1
    /\ fg_pc' = "filter"
    /\ UNCHANGED <<fg_args, fg_running, fg_events, fg_results>>
    /\ UNCHANGED restFineGrid

\* the child exits; its status is stored; on to the next symbol
FgScoreExit ==
    /\ fg_pc = "wait_score"
    /\ \E returncode \in ReturnCodes :
          /\ fg_events' = Append(fg_events, Exited(Job(FgSymbol, "score"), returncode))
          /\ fg_results' = [fg_results EXCEPT
                               !.score = (FgSymbol :> (returncode = 0)) @@ @]
    /\ fg_running' = fg_running \ {Job(FgSymbol, "score")}
    /\ fg_i' = fg_i + 1
    /\ fg_pc' = "filter"
    /\ UNCHANGED fg_args
    /\ UNCHANGED restFineGrid

\* subprocess.run raises OSError (no python3 to execute): nothing catches
\* it, main ends
FgLaunchError ==
    /\ fg_pc \in {"filter", "score"} /\ FgInLoop
    /\ IF fg_pc = "filter" THEN RunsFilter(fg_args.mode) ELSE RunsScore(fg_args.mode)
    /\ fg_pc' = "aborted"
    /\ UNCHANGED <<fg_args, fg_i, fg_running, fg_events, fg_results>>
    /\ UNCHANGED restFineGrid

\* the loop is over: the summary is logged and main returns
FgSummary ==
    /\ fg_pc = "filter" /\ ~FgInLoop
    /\ fg_pc' = "done"
    /\ UNCHANGED <<fg_args, fg_i, fg_running, fg_events, fg_results>>
    /\ UNCHANGED restFineGrid

NextFineGrid ==
    \/ FgStartFilter
    \/ FgSkipFilter
    \/ FgFilterExit
    \/ FgStartScore
    \/ FgSkipScore
    \/ FgScoreExit
    \/ FgLaunchError
    \/ FgSummary


-----------------------------------------------------------------------------
(* select_plateau_params (src/scripts/run_eth_core_grid_oos.py)            *)
(*                                                                         *)
(* A row of the train grid is [key, n_trades, sharpe]; key stands for the  *)
(* row's (z_threshold, hold_bars) pair.                                    *)

DefaultMinTrades == 50
DefaultStrategy == "adaptive"

SelectTrades == {10, 60}
SelectTopK == {1, 2}
\* selection_strategy as configured ("": the key is absent).
SelectStrategies == {"", "plateau", "top_k", "adaptive", "best"}
SelectColChoices ==
    {{"z_threshold", "hold_bars", "sharpe", "n_trades"},
     {"z_threshold", "hold_bars", "sharpe"},
     {"z_threshold", "hold_bars", "n_trades"}}

SelectTables(rows) ==
    {[rows |-> [k \in 1..Len(q) |->
                  [key |-> k, n_trades |-> q[k][1], sharpe |-> q[k][2]]],
      cols |-> c] :
        q \in SeqsUpTo(SelectTrades \X TrainSharpes, rows),
        c \in SelectColChoices}

SpResult(kind, exc, params) == [kind |-> kind, exc |-> exc, params |-> params]

\* valid_results.nlargest(top_k, 'sharpe'): the top_k rows by Sharpe in
\* descending order, the earlier row first among equals.
RECURSIVE NLargest(_, _)
NLargest(rows, k) ==
    IF k <= 0 \/ rows = <<>> THEN <<>>
    ELSE LET best == CHOOSE i \in 1..Len(rows) :
                        /\ \A j \in 1..Len(rows) : rows[j].sharpe <= rows[i].sharpe
                        /\ \A j \in 1..(i - 1) : rows[j].sharpe < rows[i].sharpe
             others == [j \in 1..(Len(rows) - 1) |->
                           IF j < best THEN rows[j] ELSE rows[j + 1]]
         IN  <<rows[best]>> \o NLargest(others, k - 1)

KeysOf(rows) == [j \in 1..Len(rows) |-> rows[j].key]

select_plateau_params(df_train_results, config) ==
    LET min_trades == config.min_trades_train
        plateau_frac == config.plateau_sharpe_frac
        top_k == config.top_k
        strategy == IF config.selection_strategy = "" THEN DefaultStrategy
                    ELSE config.selection_strategy
        valid_results ==
            SelectSeq(df_train_results.rows, LAMBDA r : r.n_trades >= min_trades)
        max_sharpe == SeriesMax(SharpeOf(valid_results))
        plateau_threshold == SharpeThreshold(plateau_frac, max_sharpe)
        plateau_results == PlateauRows(valid_results, plateau_threshold)
    IN  IF "n_trades" \notin df_train_results.cols
        THEN SpResult("raise", "KeyError", <<>>)
        ELSE IF Len(valid_results) = 0
        THEN SpResult("return", "", <<>>)
        ELSE IF "sharpe" \notin df_train_results.cols
        THEN SpResult("raise", "KeyError", <<>>)
        ELSE IF strategy = "plateau"
        THEN SpResult("return", "", KeysOf(plateau_results))
        ELSE IF strategy = "top_k"
        THEN SpResult("return", "", KeysOf(NLargest(valid_results, top_k)))
        ELSE IF strategy = "adaptive"
        THEN (IF Len(plateau_results) <= 2 * top_k
              THEN SpResult("return", "", KeysOf(plateau_results))
              ELSE SpResult("return", "", KeysOf(NLargest(valid_results, top_k))))
        ELSE SpResult("raise", "ValueError", <<>>)

InitSelectVars ==
    /\ sp_pc = "call"
    /\ \E table \in SelectTables(MaxTrain), strategy \in SelectStrategies,
          top_k \in SelectTopK :
          sp_in = [table |-> table,
                   config |-> [min_trades_train |-> DefaultMinTrades,
                               plateau_sharpe_frac |-> Frac(7, 10),
                               top_k |-> top_k,
                               selection_strategy |-> strategy]]
    /\ sp_out = SpResult("pending", "", <<>>)

IdleSelectVars ==
    /\ sp_pc = "idle"
    /\ sp_in = [table |-> [rows |-> <<>>, cols |-> {}],
                config |-> [min_trades_train |-> DefaultMinTrades,
                            plateau_sharpe_frac |-> Frac(7, 10),
                            top_k |-> 1,
                            selection_strategy |-> ""]]
    /\ sp_out = SpResult("pending", "", <<>>)

SpSelect ==
    /\ sp_pc = "call"
    /\ sp_out' = select_plateau_params(sp_in.table, sp_in.config)
    /\ sp_pc' = "done"
    /\ UNCHANGED sp_in
    /\ UNCHANGED restSelect

NextSelect == SpSelect

-----------------------------------------------------------------------------
(* The grid sweeps: run_train_grid_search (run_eth_core_grid_oos.py), the  *)
(* train loop of run_oos_for_symbol (run_score_oos_per_symbol.py) and the  *)
(* loop of main (run_joint_score_grid.py)                                  *)
(*                                                                         *)
(* Parameter combination k of the grid is the number k; a result row is    *)
(* [combo, sharpe, n_trades].  Signal generation and the backtest of one   *)
(* combination either give statistics or raise an Exception.               *)

SweepScripts == {"eth_core", "score_oos", "score_grid"}

\* The statistics a backtest may report: (sharpe in tenths, n_trades).
ComboStats == {<<0, 0>>, <<12, 4>>, <<-5, 4>>}

ResultRow(combo, sharpe, n_trades) ==
    [combo |-> combo, sharpe |-> sharpe, n_trades |-> n_trades]

\* The row of the except branch of run_train_grid_search.
NeutralRow(combo) == ResultRow(combo, 0, 0)

InitSweepVars ==
    /\ sw_pc = "loop"
    /\ sw_in \in [script : SweepScripts, n_combos : 0..MaxGrid]
    /\ sw_i = 0
    /\ sw_failed = {}
    /\ sw_results = <<>>

IdleSweepVars ==
    /\ sw_pc = "idle"
    /\ sw_in = [script |-> "eth_core", n_combos |-> 0]
    /\ sw_i = 0
    /\ sw_failed = {}
    /\ sw_results = <<>>

SwInLoop == sw_pc = "loop" /\ sw_i < sw_in.n_combos

\* The next combination is computed and its row appended (all three scripts).
SwCombination ==
    /\ SwInLoop
    /\ \E stats \in ComboStats :
          sw_results' = Append(sw_results, ResultRow(sw_i + 1, stats[1], stats[2]))
    /\ sw_i' = sw_i + 1
    /\ UNCHANGED <<sw_pc, sw_in, sw_failed>>
    /\ UNCHANGED restSweep

\* run_eth_core_grid_oos.py lines 116-127: the except branch appends a
\* neutral row and the loop goes on.
SwEthCoreFailure ==
    /\ SwInLoop
    /\ sw_in.script = "eth_core"
    /\ sw_results' = Append(sw_results, NeutralRow(sw_i + 1))
    /\ sw_failed' = sw_failed \cup {sw_i + 1}
    /\ sw_i' = sw_i + 1
    /\ UNCHANGED <<sw_pc, sw_in>>
    /\ UNCHANGED restSweep

\* run_score_oos_per_symbol.py lines 179-180: the except branch logs a
\* warning and the loop goes on; nothing is appended.
SwScoreOosFailure ==
    /\ SwInLoop
    /\ sw_in.script = "score_oos"
    /\ sw_failed' = sw_failed \cup {sw_i + 1}
    /\ sw_i' = sw_i + 1
    /\ UNCHANGED <<sw_pc, sw_in, sw_results>>
    /\ UNCHANGED restSweep

\* run_joint_score_grid.py lines 78-116: the loop body has no try; the
\* exception leaves the loop and main.
SwScoreGridFailure ==
    /\ SwInLoop
    /\ sw_in.script = "score_grid"
    /\ sw_failed' = sw_failed \cup {sw_i + 1}
    /\ sw_pc' = "raised"
    /\ UNCHANGED <<sw_in, sw_i, sw_results>>
    /\ UNCHANGED restSweep

\* Every combination has been gone through: the rows become the result table.
SwFinish ==
    /\ sw_pc = "loop"
    /\ sw_i >= sw_in.n_combos
    /\ sw_pc' = "done"
    /\ UNCHANGED <<sw_in, sw_i, sw_failed, sw_results>>
    /\ UNCHANGED restSweep

NextSweep ==
    \/ SwCombination
    \/ SwEthCoreFailure
    \/ SwScoreOosFailure
    \/ SwScoreGridFailure
    \/ SwFinish

-----------------------------------------------------------------------------
(* LoggerContext and with_log_level (src/src/utils/logging_utils.py)       *)
(*                                                                         *)
(* One logger; the code using it enters and leaves `with` blocks, properly *)
(* nested as the `with` statement makes them.  A block is left normally or *)
(* by an exception, which goes on through the enclosing blocks until it is *)
(* caught.  The body of a block does not set the level itself.             *)

\* NOTSET, DEBUG, INFO, WARNING
LogLevels == {0, 10, 20, 30}

\* LoggerContext.__init__
LoggerContext(level) == [new_level |-> level, old_level |-> None]

\* Variant: __exit__ leaves the level as the block set it.
ExitLevelKept(level, context) == level

\* LoggerContext.__exit__: self.logger.setLevel(self.old_level)
ExitLevel(level, context) == context.old_level

LastStep(op, level) == [op |-> op, level |-> level]

InitLogLevelVars ==
    /\ ll_pc = "run"
    /\ ll_in \in LogLevels
    /\ ll_level = ll_in
    /\ ll_stack = <<>>
    /\ ll_before = <<>>
    /\ ll_last = LastStep("none", ll_in)

IdleLogLevelVars ==
    /\ ll_pc = "idle"
    /\ ll_in = 0
    /\ ll_level = 0
    /\ ll_stack = <<>>
    /\ ll_before = <<>>
    /\ ll_last = LastStep("none", 0)

Innermost == ll_stack[Len(ll_stack)]

\* with with_log_level(logger, level): __init__, then __enter__.
LlEnter ==
    /\ ll_pc = "run"
    /\ Len(ll_stack) < MaxNest
    /\ \E level \in LogLevels :
          /\ ll_stack' = Append(ll_stack,
                            [LoggerContext(level) EXCEPT !.old_level = ll_level])
          /\ ll_level' = level
          /\ ll_last' = LastStep("enter", level)
    /\ ll_before' = Append(ll_before, ll_level)
    /\ UNCHANGED <<ll_pc, ll_in>>
    /\ UNCHANGED restLogLevel

\* Leaving the innermost block: __exit__ of its context.
LeaveBlock(op) ==
    /\ ll_stack # <<>>
    /\ ll_level' = ExitLevel(ll_level, Innermost)
    /\ ll_stack' = SubSeq(ll_stack, 1, Len(ll_stack) - 1)
    /\ ll_before' = SubSeq(ll_before, 1, Len(ll_before) - 1)
    /\ ll_last' = LastStep(op, ll_before[Len(ll_before)])

\* The body of the innermost block ends normally.
LlExit ==
    /\ ll_pc = "run"
    /\ LeaveBlock("exit")
    /\ UNCHANGED <<ll_pc, ll_in>>
    /\ UNCHANGED restLogLevel

\* The body of the innermost block raises.
LlRaise ==
    /\ ll_pc = "run"
    /\ ll_stack # <<>>
    /\ ll_pc' = "raising"
    /\ UNCHANGED <<ll_in, ll_level, ll_stack, ll_before, ll_last>>
    /\ UNCHANGED restLogLevel

\* The exception leaves the innermost block: __exit__ returns None, so the
\* exception goes on.
LlExitRaising ==
    /\ ll_pc = "raising"
    /\ LeaveBlock("raise")
    /\ UNCHANGED <<ll_pc, ll_in>>
    /\ UNCHANGED restLogLevel

\* The exception is caught, inside an enclosing block or outside all.
LlCaught ==
    /\ ll_pc = "raising"
    /\ ll_last.op = "raise"
    /\ ll_pc' = "run"
    /\ UNCHANGED <<ll_in, ll_level, ll_stack, ll_before, ll_last>>
    /\ UNCHANGED restLogLevel

NextLogLevel ==
    \/ LlEnter
    \/ LlExit
    \/ LlRaise
    \/ LlExitRaising
    \/ LlCaught

-----------------------------------------------------------------------------
(* normalize_ofi_columns and normalize_manip_columns                       *)
(* (src/src/joint_data/loader.py)                                          *)
(*                                                                         *)
(* A raw table is [index_name, index_datetime, columns, times]: the name   *)
(* of its index ("" for none), whether the index is a DatetimeIndex, the   *)
(* names of its columns, and the time of each row in row order, held by    *)
(* the index or by the time column.  A time is a number; pd.to_datetime    *)
(* turns each cell into the timestamp it denotes and keeps the rows in     *)
(* place.                                                                  *)

time_candidates == <<"timestamp", "time", "datetime">>

NzIndexNames == {"", "timestamp", "date"}
NzTimeColumns == {{}, {"timestamp"}, {"time"}, {"datetime", "time"}}
NzFactorColumns ==
    [ofi |-> {{"OFI", "OFI_z", "fut_ret_2"}, {"OFI_raw", "OFI_abs_z"}},
     manip |-> {{"ManipScore"}, {"ManipScore", "ManipScore_z"}}]

NzTables(which, rows) ==
    [index_name : NzIndexNames,
     index_datetime : BOOLEAN,
     columns : {t \cup f : t \in NzTimeColumns, f \in NzFactorColumns[which]},
     times : SeqsUpTo(1..rows, rows)]

NzRaise(exc) ==
    [kind |-> "raise", exc |-> exc, index_name |-> "", index |-> <<>>,
     columns |-> {}]
NzReturn(index_name, index, columns) ==
    [kind |-> "return", exc |-> "", index_name |-> index_name,
     index |-> index, columns |-> columns]

InCandidates(name) == \E k \in 1..Len(time_candidates) : time_candidates[k] = name

\* _detect_time_column: the index first, then the columns in candidate
\* order; "ValueError" when none is found.
detect_time_column(df) ==
    IF InCandidates(df.index_name) \/ df.index_datetime
    THEN (IF df.index_name # "" THEN df.index_name ELSE "index")
    ELSE LET found == {k \in 1..Len(time_candidates) :
                          time_candidates[k] \in df.columns}
         IN  IF found = {} THEN "ValueError"
             ELSE time_candidates[CHOOSE k \in found : \A j \in found : k <= j]

\* pd.to_datetime on the index or on the time column, then set_index: each
\* row keeps its place.
ToTimeIndex(times) == times

\* The time index step shared by the two functions.
SetTimeIndex(df) ==
    LET time_col == detect_time_column(df)
    IN  IF time_col = "ValueError" THEN NzRaise("ValueError")
        ELSE IF time_col = "index"
        THEN NzReturn("time", ToTimeIndex(df.times), df.columns)
        ELSE IF time_col \notin df.columns THEN NzRaise("KeyError")
        ELSE NzReturn("time", ToTimeIndex(df.times),
                      df.columns \ {"time", time_col})

Renamed(columns, old, new) ==
    IF old \in columns THEN (columns \ {old}) \cup {new} ELSE columns

normalize_ofi_columns(df) ==
    LET indexed == SetTimeIndex(df)
        raw == IF "OFI_raw" \notin indexed.columns
               THEN Renamed(indexed.columns, "OFI", "OFI_raw")
               ELSE indexed.columns
        abs_z == IF "OFI_z" \in raw THEN raw \cup {"OFI_abs_z"} ELSE raw
    IN  IF indexed.kind = "raise" THEN indexed
        ELSE [indexed EXCEPT !.columns = Renamed(abs_z, "fut_ret_2", "ret_fwd_2")]

normalize_manip_columns(df) ==
    LET indexed == SetTimeIndex(df)
    IN  IF indexed.kind = "raise" THEN indexed
        ELSE [indexed EXCEPT !.columns =
                 IF "ManipScore" \in @ THEN @ \cup {"ManipScore_z"} ELSE @]

InitNormalizeVars ==
    /\ nz_pc = "call"
    /\ \E which \in {"ofi", "manip"} :
          \E df \in NzTables(which, MaxTime) : nz_in = [which |-> which, df |-> df]
    /\ nz_out = NzRaise("pending")

IdleNormalizeVars ==
    /\ nz_pc = "idle"
    /\ nz_in = [which |-> "ofi",
                df |-> [index_name |-> "", index_datetime |-> FALSE,
                        columns |-> {}, times |-> <<>>]]
    /\ nz_out = NzRaise("pending")

NzNormalizeOfi ==
    /\ nz_pc = "call"
    /\ nz_in.which = "ofi"
    /\ nz_out' = normalize_ofi_columns(nz_in.df)
    /\ nz_pc' = "done"
    /\ UNCHANGED nz_in
    /\ UNCHANGED restNormalize

NzNormalizeManip ==
    /\ nz_pc = "call"
    /\ nz_in.which = "manip"
    /\ nz_out' = normalize_manip_columns(nz_in.df)
    /\ nz_pc' = "done"
    /\ UNCHANGED nz_in
    /\ UNCHANGED restNormalize

NextNormalize ==
    \/ NzNormalizeOfi
    \/ NzNormalizeManip

-----------------------------------------------------------------------------
(* compute_manip_signal (src/src/joint_factors/manip_view.py) and          *)
(* compute_ofi_signal (src/src/joint_factors/ofi_view.py)                  *)
(*                                                                         *)
(* A table is [has_z, z]: whether it has the factor's z-score column, and  *)
(* the z-score of each row (NaN where missing); without the column only    *)
(* the number of rows matters.                                             *)

ViewZScores == {-3, 0, 3, NaN}
ViewThresholds == {2, -1}
ViewDirections == {"reversal", "continuation", "momentum", "sideways"}

ViewTables(rows) == [has_z : BOOLEAN, z : SeqsUpTo(ViewZScores, rows)]

VwRaise(exc) == [kind |-> "raise", exc |-> exc, signal |-> <<>>]
VwReturn(signal) == [kind |-> "return", exc |-> "", signal |-> signal]

\* Comparisons with NaN are False.
ZAbove(z, threshold) == z # NaN /\ z > threshold
ZBelow(z, threshold) == z # NaN /\ z < threshold

\* signal[z > threshold] = above; signal[z < -threshold] = below, on a
\* series of zeros: the second assignment is made last.
ThresholdSignal(z, threshold, above, below) ==
    [k \in 1..Len(z) |->
        IF ZBelow(z[k], -threshold) THEN below
        ELSE IF ZAbove(z[k], threshold) THEN above
        ELSE 0]

ZeroSignal(z) == [k \in 1..Len(z) |-> 0]

compute_manip_signal(df, threshold, direction) ==
    IF ~df.has_z THEN VwReturn(ZeroSignal(df.z))
    ELSE IF direction = "reversal"
    THEN VwReturn(ThresholdSignal(df.z, threshold, -1, 1))
    ELSE IF direction = "continuation"
    THEN VwReturn(ThresholdSignal(df.z, threshold, 1, -1))
    ELSE VwRaise("ValueError")

compute_ofi_signal(df, threshold, direction) ==
    IF ~df.has_z THEN VwReturn(ZeroSignal(df.z))
    ELSE IF direction = "momentum"
    THEN VwReturn(ThresholdSignal(df.z, threshold, 1, -1))
    ELSE IF direction = "reversal"
    THEN VwReturn(ThresholdSignal(df.z, threshold, -1, 1))
    ELSE VwRaise("ValueError")

InitViewVars ==
    /\ vw_pc = "call"
    /\ vw_in \in [which : {"manip", "ofi"}, df : ViewTables(MaxRows),
                  threshold : ViewThresholds, direction : ViewDirections]
    /\ vw_out = VwRaise("pending")

IdleViewVars ==
    /\ vw_pc = "idle"
    /\ vw_in = [which |-> "manip", df |-> [has_z |-> FALSE, z |-> <<>>],
                threshold |-> 2, direction |-> "reversal"]
    /\ vw_out = VwRaise("pending")

VwManipSignal ==
    /\ vw_pc = "call"
    /\ vw_in.which = "manip"
    /\ vw_out' = compute_manip_signal(vw_in.df, vw_in.threshold, vw_in.direction)
    /\ vw_pc' = "done"
    /\ UNCHANGED vw_in
    /\ UNCHANGED restView

VwOfiSignal ==
    /\ vw_pc = "call"
    /\ vw_in.which = "ofi"
    /\ vw_out' = compute_ofi_signal(vw_in.df, vw_in.threshold, vw_in.direction)
    /\ vw_pc' = "done"
    /\ UNCHANGED vw_in
    /\ UNCHANGED restView

NextView ==
    \/ VwManipSignal
    \/ VwOfiSignal

-----------------------------------------------------------------------------
(* generate_recommendations (src/scripts/summarize_eth_core_oos.py)        *)
(*                                                                         *)
(* Sharpe ratios, ratios and rates are in hundredths; the drawdown of the  *)
(* core combination on the test set is the value compute_max_drawdown      *)
(* gives for the equity curve of its test backtest, an exact fraction.     *)
(* Each recommendation is written as a short tag.                          *)

\* (test_mean_sharpe, test_sharpe_gt0_ratio) of the plateau statistics
RcPlateauSharpes == {<<30, 60>>, <<10, 50>>, <<-10, 40>>}
RcDegradations == {-60, 20, 40}
RcCoreSharpes == {10, 30}
RcWinrates == {30, 50}
RcTrades == {10, 30, 60}
RcMaxDrawdowns == {Frac(3, 10), Frac(1, 10)}

\* a <= b on floats: False when either is NaN.
FracLe(a, b) == a.den # 0 /\ b.den # 0 /\ a.num * b.den <= b.num * a.den

\* core_stats as analyze_core_combo returns it; {} (core_given false) makes
\* every .get give its default 0.
CoreStats(core_given, sharpe, curve, winrate, trades) ==
    IF core_given
    THEN [core_test_sharpe |-> sharpe,
          core_test_dd |-> compute_max_drawdown(curve),
          core_test_winrate |-> winrate,
          core_test_trades |-> trades]
    ELSE [core_test_sharpe |-> 0, core_test_dd |-> Frac(0, 1),
          core_test_winrate |-> 0, core_test_trades |-> 0]

\* Lines 239-242.
DrawdownTag(core_test_dd, max_test_dd) ==
    IF FracLe(core_test_dd, max_test_dd) THEN "drawdown_acceptable"
    ELSE "drawdown_high"

generate_recommendations(plateau_stats, core_stats, max_test_dd) ==
    LET min_test_sharpe == 20
        min_test_winrate == 40
        test_sharpe == plateau_stats.test_mean_sharpe
        test_sharpe_gt0 == plateau_stats.test_sharpe_gt0_ratio
        degradation_pct == plateau_stats.sharpe_degradation_pct
        magnitude == IF degradation_pct < 0 THEN -degradation_pct
                     ELSE degradation_pct
    IN  << IF test_sharpe >= min_test_sharpe /\ test_sharpe_gt0 >= 60 THEN "pass"
           ELSE IF test_sharpe >= 0 /\ test_sharpe_gt0 >= 50 THEN "marginal"
           ELSE "fail",
           IF core_stats.core_test_sharpe >= min_test_sharpe THEN "core_passes"
           ELSE "core_fails",
           DrawdownTag(core_stats.core_test_dd, max_test_dd),
           IF core_stats.core_test_winrate >= min_test_winrate
           THEN "winrate_acceptable" ELSE "winrate_low",
           IF magnitude <= 30 THEN "degradation_acceptable"
           ELSE IF magnitude <= 50 THEN "degradation_moderate"
           ELSE "degradation_severe",
           IF core_stats.core_test_trades >= 50 THEN "trades_sufficient"
           ELSE IF core_stats.core_test_trades >= 20 THEN "trades_moderate"
           ELSE "trades_insufficient" >>

InitRecommendVars ==
    /\ rc_pc = "call"
    /\ \E ps \in RcPlateauSharpes, degradation \in RcDegradations,
          core_given \in BOOLEAN, sharpe \in RcCoreSharpes,
          curve \in SeqsUpTo(EquityValues, MaxTestCurve),
          winrate \in RcWinrates, trades \in RcTrades,
          max_test_dd \in RcMaxDrawdowns :
          rc_in = [plateau_stats |->
                      [test_mean_sharpe |-> ps[1],
                       test_sharpe_gt0_ratio |-> ps[2],
                       sharpe_degradation_pct |-> degradation],
                   core_given |-> core_given,
                   core |-> [sharpe |-> sharpe, winrate |-> winrate,
                             trades |-> trades],
                   curve |-> curve,
                   max_test_drawdown |-> max_test_dd]
    /\ rc_out = <<>>

IdleRecommendVars ==
    /\ rc_pc = "idle"
    /\ rc_in = [plateau_stats |->
                   [test_mean_sharpe |-> 0, test_sharpe_gt0_ratio |-> 0,
                    sharpe_degradation_pct |-> 0],
                core_given |-> FALSE,
                core |-> [sharpe |-> 0, winrate |-> 0, trades |-> 0],
                curve |-> <<>>,
                max_test_drawdown |-> Frac(3, 10)]
    /\ rc_out = <<>>

RcRecommend ==
    /\ rc_pc = "call"
    /\ rc_out' = generate_recommendations(
                    rc_in.plateau_stats,
                    CoreStats(rc_in.core_given, rc_in.core.sharpe, rc_in.curve,
                              rc_in.core.winrate, rc_in.core.trades),
                    rc_in.max_test_drawdown)
    /\ rc_pc' = "done"
    /\ UNCHANGED rc_in
    /\ UNCHANGED restRecommend

NextRecommend == RcRecommend
-----------------------------------------------------------------------------
(* Specifications: one per entry point, and their union                    *)

InitBacktest ==
    /\ InitBacktestVars
    /\ IdleSignalVars
    /\ IdleDrawdownVars
    /\ IdlePlateauVars
    /\ IdleOosConfigVars
    /\ IdleSubstituteVars
    /\ IdleMissingVars
    /\ IdleMergeVars
    /\ IdleBuildVars
    /\ IdleCliVars
    /\ IdleFineGridVars
    /\ IdleSelectVars
    /\ IdleSweepVars
    /\ IdleLogLevelVars
    /\ IdleNormalizeVars
    /\ IdleViewVars
    /\ IdleRecommendVars

InitSignal ==
    /\ IdleBacktestVars
    /\ InitSignalVars
    /\ IdleDrawdownVars
    /\ IdlePlateauVars
    /\ IdleOosConfigVars
    /\ IdleSubstituteVars
    /\ IdleMissingVars
    /\ IdleMergeVars
    /\ IdleBuildVars
    /\ IdleCliVars
    /\ IdleFineGridVars
    /\ IdleSelectVars
    /\ IdleSweepVars
    /\ IdleLogLevelVars
    /\ IdleNormalizeVars
    /\ IdleViewVars
    /\ IdleRecommendVars

InitDrawdown ==
    /\ IdleBacktestVars
    /\ IdleSignalVars
    /\ InitDrawdownVars
    /\ IdlePlateauVars
    /\ IdleOosConfigVars
    /\ IdleSubstituteVars
    /\ IdleMissingVars
    /\ IdleMergeVars
    /\ IdleBuildVars
    /\ IdleCliVars
    /\ IdleFineGridVars
    /\ IdleSelectVars
    /\ IdleSweepVars
    /\ IdleLogLevelVars
    /\ IdleNormalizeVars
    /\ IdleViewVars
    /\ IdleRecommendVars

InitPlateau ==
    /\ IdleBacktestVars
    /\ IdleSignalVars
    /\ IdleDrawdownVars
    /\ InitPlateauVars
    /\ IdleOosConfigVars
    /\ IdleSubstituteVars
    /\ IdleMissingVars
    /\ IdleMergeVars
    /\ IdleBuildVars
    /\ IdleCliVars
    /\ IdleFineGridVars
    /\ IdleSelectVars
    /\ IdleSweepVars
    /\ IdleLogLevelVars
    /\ IdleNormalizeVars
    /\ IdleViewVars
    /\ IdleRecommendVars

InitOosConfig ==
    /\ IdleBacktestVars
    /\ IdleSignalVars
    /\ IdleDrawdownVars
    /\ IdlePlateauVars
    /\ InitOosConfigVars
    /\ IdleSubstituteVars
    /\ IdleMissingVars
    /\ IdleMergeVars
    /\ IdleBuildVars
    /\ IdleCliVars
    /\ IdleFineGridVars
    /\ IdleSelectVars
    /\ IdleSweepVars
    /\ IdleLogLevelVars
    /\ IdleNormalizeVars
    /\ IdleViewVars
    /\ IdleRecommendVars

InitSubstitute ==
    /\ IdleBacktestVars
    /\ IdleSignalVars
    /\ IdleDrawdownVars
    /\ IdlePlateauVars
    /\ IdleOosConfigVars
    /\ InitSubstituteVars
    /\ IdleMissingVars
    /\ IdleMergeVars
    /\ IdleBuildVars
    /\ IdleCliVars
    /\ IdleFineGridVars
    /\ IdleSelectVars
    /\ IdleSweepVars
    /\ IdleLogLevelVars
    /\ IdleNormalizeVars
    /\ IdleViewVars
    /\ IdleRecommendVars

InitMissing ==
    /\ IdleBacktestVars
    /\ IdleSignalVars
    /\ IdleDrawdownVars
    /\ IdlePlateauVars
    /\ IdleOosConfigVars
    /\ IdleSubstituteVars
    /\ InitMissingVars
    /\ IdleMergeVars
    /\ IdleBuildVars
    /\ IdleCliVars
    /\ IdleFineGridVars
    /\ IdleSelectVars
    /\ IdleSweepVars
    /\ IdleLogLevelVars
    /\ IdleNormalizeVars
    /\ IdleViewVars
    /\ IdleRecommendVars

InitMerge ==
    /\ IdleBacktestVars
    /\ IdleSignalVars
    /\ IdleDrawdownVars
    /\ IdlePlateauVars
    /\ IdleOosConfigVars
    /\ IdleSubstituteVars
    /\ IdleMissingVars
    /\ InitMergeVars
    /\ IdleBuildVars
    /\ IdleCliVars
    /\ IdleFineGridVars
    /\ IdleSelectVars
    /\ IdleSweepVars
    /\ IdleLogLevelVars
    /\ IdleNormalizeVars
    /\ IdleViewVars
    /\ IdleRecommendVars

InitBuild ==
    /\ IdleBacktestVars
    /\ IdleSignalVars
    /\ IdleDrawdownVars
    /\ IdlePlateauVars
    /\ IdleOosConfigVars
    /\ IdleSubstituteVars
    /\ IdleMissingVars
    /\ IdleMergeVars
    /\ InitBuildVars
    /\ IdleCliVars
    /\ IdleFineGridVars
    /\ IdleSelectVars
    /\ IdleSweepVars
    /\ IdleLogLevelVars
    /\ IdleNormalizeVars
    /\ IdleViewVars
    /\ IdleRecommendVars

InitCli ==
    /\ IdleBacktestVars
    /\ IdleSignalVars
    /\ IdleDrawdownVars
    /\ IdlePlateauVars
    /\ IdleOosConfigVars
    /\ IdleSubstituteVars
    /\ IdleMissingVars
    /\ IdleMergeVars
    /\ IdleBuildVars
    /\ InitCliVars
    /\ IdleFineGridVars
    /\ IdleSelectVars
    /\ IdleSweepVars
    /\ IdleLogLevelVars
    /\ IdleNormalizeVars
    /\ IdleViewVars
    /\ IdleRecommendVars

InitFineGrid ==
    /\ IdleBacktestVars
    /\ IdleSignalVars
    /\ IdleDrawdownVars
    /\ IdlePlateauVars
    /\ IdleOosConfigVars
    /\ IdleSubstituteVars
    /\ IdleMissingVars
    /\ IdleMergeVars
    /\ IdleBuildVars
    /\ IdleCliVars
    /\ InitFineGridVars
    /\ IdleSelectVars
    /\ IdleSweepVars
    /\ IdleLogLevelVars
    /\ IdleNormalizeVars
    /\ IdleViewVars
    /\ IdleRecommendVars

InitSelect ==
    /\ IdleBacktestVars
    /\ IdleSignalVars
    /\ IdleDrawdownVars
    /\ IdlePlateauVars
    /\ IdleOosConfigVars
    /\ IdleSubstituteVars
    /\ IdleMissingVars
    /\ IdleMergeVars
    /\ IdleBuildVars
    /\ IdleCliVars
    /\ IdleFineGridVars
    /\ InitSelectVars
    /\ IdleSweepVars
    /\ IdleLogLevelVars
    /\ IdleNormalizeVars
    /\ IdleViewVars
    /\ IdleRecommendVars

InitSweep ==
    /\ IdleBacktestVars
    /\ IdleSignalVars
    /\ IdleDrawdownVars
    /\ IdlePlateauVars
    /\ IdleOosConfigVars
    /\ IdleSubstituteVars
    /\ IdleMissingVars
    /\ IdleMergeVars
    /\ IdleBuildVars
    /\ IdleCliVars
    /\ IdleFineGridVars
    /\ IdleSelectVars
    /\ InitSweepVars
    /\ IdleLogLevelVars
    /\ IdleNormalizeVars
    /\ IdleViewVars
    /\ IdleRecommendVars

InitLogLevel ==
    /\ IdleBacktestVars
    /\ IdleSignalVars
    /\ IdleDrawdownVars
    /\ IdlePlateauVars
    /\ IdleOosConfigVars
    /\ IdleSubstituteVars
    /\ IdleMissingVars
    /\ IdleMergeVars
    /\ IdleBuildVars
    /\ IdleCliVars
    /\ IdleFineGridVars
    /\ IdleSelectVars
    /\ IdleSweepVars
    /\ InitLogLevelVars
    /\ IdleNormalizeVars
    /\ IdleViewVars
    /\ IdleRecommendVars

InitNormalize ==
    /\ IdleBacktestVars
    /\ IdleSignalVars
    /\ IdleDrawdownVars
    /\ IdlePlateauVars
    /\ IdleOosConfigVars
    /\ IdleSubstituteVars
    /\ IdleMissingVars
    /\ IdleMergeVars
    /\ IdleBuildVars
    /\ IdleCliVars
    /\ IdleFineGridVars
    /\ IdleSelectVars
    /\ IdleSweepVars
    /\ IdleLogLevelVars
    /\ InitNormalizeVars
    /\ IdleViewVars
    /\ IdleRecommendVars

InitView ==
    /\ IdleBacktestVars
    /\ IdleSignalVars
    /\ IdleDrawdownVars
    /\ IdlePlateauVars
    /\ IdleOosConfigVars
    /\ IdleSubstituteVars
    /\ IdleMissingVars
    /\ IdleMergeVars
    /\ IdleBuildVars
    /\ IdleCliVars
    /\ IdleFineGridVars
    /\ IdleSelectVars
    /\ IdleSweepVars
    /\ IdleLogLevelVars
    /\ IdleNormalizeVars
    /\ InitViewVars
    /\ IdleRecommendVars

InitRecommend ==
    /\ IdleBacktestVars
    /\ IdleSignalVars
    /\ IdleDrawdownVars
    /\ IdlePlateauVars
    /\ IdleOosConfigVars
    /\ IdleSubstituteVars
    /\ IdleMissingVars
    /\ IdleMergeVars
    /\ IdleBuildVars
    /\ IdleCliVars
    /\ IdleFineGridVars
    /\ IdleSelectVars
    /\ IdleSweepVars
    /\ IdleLogLevelVars
    /\ IdleNormalizeVars
    /\ IdleViewVars
    /\ InitRecommendVars

SpecBacktest == InitBacktest /\ [][NextBacktest]_vars
SpecSignal == InitSignal /\ [][NextSignal]_vars
SpecDrawdown == InitDrawdown /\ [][NextDrawdown]_vars
SpecPlateau == InitPlateau /\ [][NextPlateau]_vars
SpecOosConfig == InitOosConfig /\ [][NextOosConfig]_vars
SpecSubstitute == InitSubstitute /\ [][NextSubstitute]_vars
SpecMissing == InitMissing /\ [][NextMissing]_vars
SpecMerge == InitMerge /\ [][NextMerge]_vars
SpecBuild == InitBuild /\ [][NextBuild]_vars
SpecCli == InitCli /\ [][NextCli]_vars
SpecFineGrid == InitFineGrid /\ [][NextFineGrid]_vars
SpecSelect == InitSelect /\ [][NextSelect]_vars
SpecSweep == InitSweep /\ [][NextSweep]_vars
SpecLogLevel == InitLogLevel /\ [][NextLogLevel]_vars
SpecNormalize == InitNormalize /\ [][NextNormalize]_vars
SpecView == InitView /\ [][NextView]_vars
SpecRecommend == InitRecommend /\ [][NextRecommend]_vars

\* The interpreter runs the loop of a started call to its end.
SpecBacktestFair == SpecBacktest /\ WF_vars(NextBacktest)

Init ==
    \/ InitBacktest
    \/ InitSignal
    \/ InitDrawdown
    \/ InitPlateau
    \/ InitOosConfig
    \/ InitSubstitute
    \/ InitMissing
    \/ InitMerge
    \/ InitBuild
    \/ InitCli
    \/ InitFineGrid
    \/ InitSelect
    \/ InitSweep
    \/ InitLogLevel
    \/ InitNormalize
    \/ InitView
    \/ InitRecommend

Next ==
    \/ NextBacktest
    \/ NextSignal
    \/ NextDrawdown
    \/ NextPlateau
    \/ NextOosConfig
    \/ NextSubstitute
    \/ NextMissing
    \/ NextMerge
    \/ NextBuild
    \/ NextCli
    \/ NextFineGrid
    \/ NextSelect
    \/ NextSweep
    \/ NextLogLevel
    \/ NextNormalize
    \/ NextView
    \/ NextRecommend

Spec == Init /\ [][Next]_vars

-----------------------------------------------------------------------------
(* Properties of the backtest, checked under SpecBacktest                  *)

TradeIndices == 1..Len(bt_trades)

\* C1: the trades are listed in increasing time order, and the entry index of
\* each trade is strictly greater than the exit index of the trade before it,
\* so no two trades share a bar.
C1_NoOverlap ==
    \A k \in TradeIndices :
        /\ bt_trades[k].entry_idx <= bt_trades[k].exit_idx
        /\ bt_trades[k].entry_time <= bt_trades[k].exit_time
        /\ k > 1 =>
              /\ bt_trades[k].entry_idx > bt_trades[k - 1].exit_idx
              /\ bt_trades[k].entry_time > bt_trades[k - 1].exit_time
              /\ bt_trades[k].entry_time > bt_trades[k - 1].entry_time

\* Two trades back to back: the second enters on the bar after the first exits.
C1_Witness ==
    /\ bt_pc = "done"
    /\ Len(bt_result.trades) >= 2
    /\ bt_result.trades[2].entry_idx = bt_result.trades[1].exit_idx + 1
    /\ bt_result.trades[1].exit_idx > bt_result.trades[1].entry_idx

\* C3: a trade entered at index e of N bars with holding_bars h exits at
\* min(e + h, N - 1), a valid index in [e, N - 1], and its recorded holding
\* length is exit - e <= h.
C3_ExitTruncated ==
    \A k \in TradeIndices :
        LET t == bt_trades[k]
            n == Len(bt_df)
        IN  /\ bt_hold >= 0
            /\ t.exit_idx = (IF t.entry_idx + bt_hold <= n - 1
                              THEN t.entry_idx + bt_hold ELSE n - 1)
            /\ t.entry_idx <= t.exit_idx
            /\ t.exit_idx <= n - 1
            /\ t.holding_bars = t.exit_idx - t.entry_idx
            /\ t.holding_bars <= bt_hold
            /\ t.exit_time = bt_df[t.exit_idx + 1].time

\* A signal within the last h bars: the trade ends at the last bar, early.
C3_Witness ==
    /\ bt_pc = "done"
    /\ bt_result.status = "ok"
    /\ \E k \in 1..Len(bt_result.trades) :
          LET t == bt_result.trades[k]
          IN  /\ t.exit_idx = Len(bt_df) - 1
              /\ t.entry_idx + bt_hold > Len(bt_df) - 1
              /\ t.holding_bars >= 1
              /\ t.holding_bars < bt_hold

AllSignalsZero(rows) == \A k \in 1..Len(rows) : rows[k].signal = 0

ZeroTradeShape(result, capital) ==
    /\ result.status = "ok"
    /\ result.stats.n_trades = 0
    /\ result.stats_keys = {"n_trades"}
    /\ result.trades = <<>>
    /\ Len(result.equity_values) = 1
    /\ result.equity_values[1] = EquityPoint(capital, <<>>)
    /\ Len(result.equity_index) = 1

\* C4 as stated: on a non-empty table with an all-zero signal the result has
\* n_trades = 0 only, no trade, and a one-point equity curve equal to
\* initial_capital indexed at the first timestamp of the table passed in.
C4_Original ==
    (bt_pc = "done" /\ Len(bt_in.rows) >= 1 /\ AllSignalsZero(bt_in.rows)) =>
        /\ ZeroTradeShape(bt_result, bt_args.initial_capital)
        /\ bt_result.equity_index = <<bt_in.rows[1].time>>

\* C4 amended: the single point is indexed at the first timestamp of the table
\* left by the date filter, and at the default position 0 when the date
\* filter leaves no bar.
C4_ZeroTrades ==
    (bt_pc = "done" /\ Len(bt_in.rows) >= 1 /\ AllSignalsZero(bt_in.rows)) =>
        /\ ZeroTradeShape(bt_result, bt_args.initial_capital)
        /\ LET kept == FilteredRows(bt_in, bt_args)
           IN  bt_result.equity_index =
                 (IF Len(kept) = 0 THEN <<RangeIndexStart>> ELSE <<kept[1].time>>)

\* An all-zero table scanned to its end after the date filter dropped bar 1.
C4_Witness ==
    /\ bt_pc = "done"
    /\ Len(bt_in.rows) >= 2
    /\ AllSignalsZero(bt_in.rows)
    /\ bt_i = Len(bt_df)
    /\ Len(bt_df) >= 1
    /\ bt_result.equity_index = <<2>>

\* C9: gross return is (exit - entry)/entry for a long and (entry - exit)/entry
\* for a short, on the closes of the entry and exit bars, and net return is
\* gross return minus 2 * cost_bps / 10000, for every trade.
C9_Returns ==
    \A k \in TradeIndices :
        LET t == bt_trades[k]
            e == bt_df[t.entry_idx + 1].close
            x == bt_df[t.exit_idx + 1].close
            g == t.gross_return
            r == t.net_return
        IN  /\ t.entry_price = e
            /\ t.exit_price = x
            /\ g.den > 0
            /\ r.den > 0
            /\ t.signal = 1 => g.num * e = (x - e) * g.den
            /\ t.signal = -1 => g.num * e = (e - x) * g.den
            /\ (g.num * r.den - r.num * g.den) * 10000
                  = 2 * bt_args.cost_bps * g.den * r.den
            /\ (t.signal = 1 /\ e = 100 /\ x = 110 /\ bt_args.cost_bps = 5) =>
                  /\ FracEq(g, Frac(1, 10))
                  /\ FracEq(r, Frac(99, 1000))

\* A long from 100 to 110 at 5 bps, and a short cut short by the end of data.
C9_Witness ==
    /\ bt_pc = "done"
    /\ bt_args.cost_bps = 5
    /\ \E k \in 1..Len(bt_result.trades) :
          LET t == bt_result.trades[k]
          IN  t.signal = 1 /\ t.entry_price = 100 /\ t.exit_price = 110
    /\ \E k \in 1..Len(bt_result.trades) :
          LET t == bt_result.trades[k]
          IN  t.signal = -1 /\ t.holding_bars < bt_hold

-----------------------------------------------------------------------------
(* Properties of the signal generators, checked under SpecSignal           *)

Returned == sg_pc = "done" /\ sg_out.status = "ok"
OutRows == sg_out.table.rows

\* C2: in every returned table the tradable signal is the raw signal one bar
\* later: signal[0] = 0 and signal[t] = raw_signal[t-1] for t > 0.
C2_OneBarLag ==
    Returned =>
        \A k \in 1..Len(OutRows) :
            /\ OutRows[k].raw_signal \in {-1, 0, 1}
            /\ OutRows[k].signal = (IF k = 1 THEN 0 ELSE OutRows[k - 1].raw_signal)

\* A raw signal on bar 0 that is traded on bar 1, with nothing raw on bar 1.
C2_Witness ==
    /\ Returned
    /\ Len(OutRows) >= 2
    /\ OutRows[1].raw_signal # 0
    /\ OutRows[2].raw_signal = 0
    /\ OutRows[2].signal = OutRows[1].raw_signal

\* The reversal rule of the claims on a value z and a threshold entry.
ReversalOf(z, entry) ==
    IF z # NaN /\ z > entry THEN -1
    ELSE IF z # NaN /\ z < -entry THEN 1
    ELSE 0

\* C5: with manip_z_entry >= 0, a bar that passes the OFI gate gets the
\* reversal rule on ManipScore_z under 'reversal' and its negation under
\* 'continuation' (the negation, bar by bar, of what the same table gives
\* under 'reversal'); a bar that does not pass the gate gets 0.
C5_FilterDirection ==
    (Returned /\ sg_cfg.mode = "filter" /\ sg_cfg.manip_z_entry >= 0) =>
        LET reversal == generate_filter_signal(
                            sg_in, [sg_cfg EXCEPT !.direction = "reversal"]).table.rows
        IN  \A k \in 1..Len(OutRows) :
              LET row == OutRows[k]
                  gate == row.OFI_abs_z < sg_cfg.ofi_abs_z_max
                  rule == ReversalOf(row.ManipScore_z, sg_cfg.manip_z_entry)
              IN  /\ gate /\ sg_cfg.direction = "reversal" => row.raw_signal = rule
                  /\ gate /\ sg_cfg.direction = "continuation" => row.raw_signal = -rule
                  /\ sg_cfg.direction = "continuation" =>
                        row.raw_signal = -reversal[k].raw_signal
                  /\ ~gate => row.raw_signal = 0

\* Continuation, one bar long and one bar held back by the gate.
C5_Witness ==
    /\ Returned
    /\ sg_cfg.mode = "filter"
    /\ sg_cfg.direction = "continuation"
    /\ sg_cfg.manip_z_entry = 2
    /\ Len(OutRows) >= 2
    /\ OutRows[1].ManipScore_z = 3 /\ OutRows[1].raw_signal = 1
    /\ OutRows[2].ManipScore_z = 3 /\ OutRows[2].raw_signal = 0
    /\ OutRows[2].OFI_abs_z >= sg_cfg.ofi_abs_z_max

\* C6: in Filter mode the raw signal is non-zero only at bars whose OFI_z
\* satisfies |OFI_z| < ofi_abs_z_max.
C6_GateOnOfiZ ==
    (Returned /\ sg_cfg.mode = "filter") =>
        \A k \in 1..Len(OutRows) :
            OutRows[k].raw_signal # 0 =>
                /\ OutRows[k].OFI_z # NaN
                /\ OutRows[k].OFI_z < sg_cfg.ofi_abs_z_max
                /\ -OutRows[k].OFI_z < sg_cfg.ofi_abs_z_max

\* C7: composite_z = weight_manip * ManipScore_z + weight_ofi * OFI_z at every
\* bar, and with composite_z_entry >= 0 the raw signal is the reversal rule on
\* composite_z under 'reversal' and its negation under 'continuation',
\* whatever OFI_abs_z is.
C7_ScoreComposite ==
    (Returned /\ sg_cfg.mode = "score") =>
        \A k \in 1..Len(OutRows) :
            LET row == OutRows[k]
                rule == ReversalOf(row.composite_z, sg_cfg.composite_z_entry)
            IN  /\ row.ManipScore_z # NaN =>
                      row.composite_z = sg_cfg.weight_manip * sg_in.rows[k].ManipScore_z
                                        + sg_cfg.weight_ofi * sg_in.rows[k].OFI_z
                /\ row.ManipScore_z = NaN => row.composite_z = NaN
                /\ sg_cfg.composite_z_entry >= 0 =>
                      /\ sg_cfg.direction = "reversal" => row.raw_signal = rule
                      /\ sg_cfg.direction = "continuation" => row.raw_signal = -rule

\* A negative OFI weight: 2*3 - 1*(-2) = 8 gives a short under 'reversal' on a
\* bar whose OFI_abs_z is large, and 2*1 - 1*1 = 1 gives nothing.
C7_Witness ==
    /\ Returned
    /\ sg_cfg.mode = "score"
    /\ sg_cfg.direction = "reversal"
    /\ sg_cfg.weight_manip = 2 /\ sg_cfg.weight_ofi = -1
    /\ sg_cfg.composite_z_entry = 2
    /\ Len(OutRows) >= 2
    /\ OutRows[1].composite_z = 8 /\ OutRows[1].raw_signal = -1
    /\ OutRows[1].OFI_abs_z = 2
    /\ OutRows[2].composite_z = 1 /\ OutRows[2].raw_signal = 0

AddedColumns == {"composite_z", "raw_signal", "signal", "holding_bars"}

\* C8: for a direction other than 'reversal' and 'continuation' both
\* generators raise ValueError, return no table, and the caller's table has
\* no added column.
C8_UnknownDirection ==
    (sg_pc = "done" /\ sg_cfg.direction \notin {"reversal", "continuation"}) =>
        /\ sg_out.status = "ValueError"
        /\ ~sg_out.returned
        /\ sg_out.table = NoTable
        /\ sg_in.cols \cap AddedColumns = {}
        /\ \A k \in 1..Len(sg_in.rows) :
              \A c \in AddedColumns : sg_in.rows[k][c] = NaN

\* The raise of the direction branch itself: every required column is there
\* and raw_signal was already added to the generator's own table.
C8_Witness ==
    /\ sg_pc = "done"
    /\ sg_cfg.mode = "filter"
    /\ sg_cfg.direction = "momentum"
    /\ sg_in.cols = FilterRequired
    /\ Len(sg_in.rows) >= 1
    /\ sg_out.status = "ValueError"
    /\ "raw_signal" \in sg_out.work.cols

-----------------------------------------------------------------------------
(* Properties of compute_max_drawdown, checked under SpecDrawdown          *)

\* The highest value of the curve among its first t points.
PeakUpTo(t) ==
    CHOOSE p \in {dd_curve[j] : j \in 1..t} :
        \A j \in 1..t : dd_curve[j] <= p

DrawdownAt(t) == Frac(dd_curve[t] - PeakUpTo(t), PeakUpTo(t))

NonDecreasing(curve) == \A t \in 1..(Len(curve) - 1) : curve[t] <= curve[t + 1]

\* C10: on a non-empty positive curve the result is the minimum over t of
\* (v[t] - max(v[0..t])) / max(v[0..t]); it is <= 0, and 0 exactly when the
\* curve is non-decreasing; [100, 120, 90, 150, 80] gives (80 - 150)/150.
C10_MaxDrawdown ==
    (dd_pc = "done" /\ Len(dd_curve) >= 1) =>
        /\ dd_result.den > 0
        /\ \E t \in 1..Len(dd_curve) : FracEq(dd_result, DrawdownAt(t))
        /\ \A t \in 1..Len(dd_curve) : ~FracLt(DrawdownAt(t), dd_result)
        /\ dd_result.num <= 0
        /\ dd_result.num = 0 <=> NonDecreasing(dd_curve)
        /\ dd_curve = <<100, 120, 90, 150, 80>> => FracEq(dd_result, Frac(-70, 150))

\* The curve whose deepest drop is from the later, higher peak.
C10_Witness ==
    /\ dd_pc = "done"
    /\ dd_curve = <<100, 120, 90, 150, 80>>
    /\ dd_result.num < 0

-----------------------------------------------------------------------------
(* Properties of the plateau analysis, checked under SpecPlateau           *)

TrainRows == pa_in.train_df.rows
ValidTrainKeys == {k \in 1..Len(TrainRows) : TrainRows[k].n_trades > 0}
ValidTestKeys ==
    {k \in 1..Len(pa_in.test_df.rows) : pa_in.test_df.rows[k].n_trades > 0}

\* The call got as far as computing the plateau.
PlateauComputed ==
    /\ pa_pc = "done"
    /\ \/ pa_out.kind = "return"
       \/ /\ pa_out.kind = "error"
          /\ pa_out.error \in {"missing_column", "no_plateau_in_test"}

PlateauKeys == {pa_out.plateau_train[j].key : j \in 1..Len(pa_out.plateau_train)}

\* The example of the documentation, in hundredths: train Sharpes
\* 1.0, 0.8, 0.75, 0.5, 0.2 and sharpe_frac 0.7.
ExampleSharpes == <<100, 80, 75, 50, 20>>
ExampleTrain ==
    [k \in 1..Len(ExampleSharpes) |->
        [key |-> k, n_trades |-> 3, sharpe |-> ExampleSharpes[k]]]
ExampleThreshold == SharpeThreshold(Frac(7, 10), SeriesMax(ExampleSharpes))

\* C11: the plateau threshold is sharpe_frac times the largest train Sharpe
\* among the rows with n_trades > 0, and the plateau is exactly the rows with
\* n_trades > 0 whose Sharpe is at least the threshold: a row at the
\* threshold is in, a row with no trades never is.
C11_PlateauSet ==
    /\ PlateauComputed =>
          \E best \in ValidTrainKeys :
              /\ \A k \in ValidTrainKeys : TrainRows[k].sharpe <= TrainRows[best].sharpe
              /\ pa_out.plateau_threshold.num * pa_in.sharpe_frac.den
                    = pa_in.sharpe_frac.num * TrainRows[best].sharpe
                        * pa_out.plateau_threshold.den
              /\ PlateauKeys =
                    {k \in ValidTrainKeys :
                        TrainRows[k].sharpe * pa_in.sharpe_frac.den
                            >= pa_in.sharpe_frac.num * TrainRows[best].sharpe}
              /\ Len(pa_out.plateau_train) = Cardinality(PlateauKeys)
              /\ \A j \in 1..Len(pa_out.plateau_train) :
                    pa_out.plateau_train[j] = TrainRows[pa_out.plateau_train[j].key]
    /\ FracEq(ExampleThreshold, Frac(70, 1))
    /\ SharpeOf(PlateauRows(ExampleTrain, ExampleThreshold)) = <<100, 80, 75>>

\* A best row at 1.0 and a row exactly at the threshold 0.7: both in the plateau.
C11_Witness ==
    /\ pa_pc = "done"
    /\ pa_out.kind = "return"
    /\ pa_in.sharpe_frac = Frac(7, 10)
    /\ SharpeOf(TrainRows) = <<10, 7>>
    /\ ValidTrainKeys = {1, 2}
    /\ PlateauKeys = {1, 2}

MissingParamCols ==
    {c \in ParamCols : c \notin pa_in.train_df.cols \/ c \notin pa_in.test_df.cols}

ReachesColumnCheck ==
    /\ "n_trades" \in pa_in.train_df.cols
    /\ "n_trades" \in pa_in.test_df.cols
    /\ "sharpe" \in pa_in.train_df.cols
    /\ ValidTrainKeys # {}
    /\ ValidTestKeys # {}

BestTrainKeys ==
    {k \in ValidTrainKeys :
        \A j \in ValidTrainKeys : TrainRows[j].sharpe <= TrainRows[k].sharpe}

\* C29: for 0 < sharpe_frac <= 1 and a train table with at least one row
\* with n_trades > 0, the plateau the call computes is non-empty and holds
\* every valid train row that attains the maximum train Sharpe.
C29_BestInPlateau ==
    (/\ PlateauComputed
     /\ ValidTrainKeys # {}
     /\ pa_in.sharpe_frac.num > 0
     /\ pa_in.sharpe_frac.num <= pa_in.sharpe_frac.den) =>
        /\ PlateauKeys # {}
        /\ BestTrainKeys \subseteq PlateauKeys
-----------------------------------------------------------------------------
(* Properties of load_oos_splits_config, checked under SpecOosConfig       *)

AllDays(splits) == \A f \in DateFields : splits[f] \in Days

StrictlyOrdered(splits) ==
    /\ AllDays(splits)
    /\ splits.train_start < splits.train_end
    /\ splits.train_end < splits.test_start
    /\ splits.test_start < splits.test_end

\* The ordering messages whose ordering the entry violates.
ViolatedOrderings(splits) ==
    {msg \in {"train_start must be before train_end",
              "test_start must be before test_end",
              "train_end must be before test_start (no overlap)"} :
        \/ msg = "train_start must be before train_end"
              /\ splits.train_start >= splits.train_end
        \/ msg = "test_start must be before test_end"
              /\ splits.test_start >= splits.test_end
        \/ msg = "train_end must be before test_start (no overlap)"
              /\ splits.train_end >= splits.test_start}

-----------------------------------------------------------------------------
(* Properties of substitute_variables, checked under SpecSubstitute        *)

\* The string with each token whose name is a key of map replaced by the
\* stringified value of that key, every other chunk kept.
RECURSIVE TokensReplaced(_, _)
TokensReplaced(chunks, map) ==
    IF chunks = <<>> THEN <<>>
    ELSE LET c == Head(chunks)
         IN  (IF c \in Tokens /\ HasKey(map, NameOf(c))
              THEN Lookup(map, NameOf(c)).chunks
              ELSE <<c>>) \o TokensReplaced(Tail(chunks), map)

\* The value with that replacement made in every string, at any depth.
RECURSIVE Resolved(_, _)
Resolved(obj, map) ==
    IF obj.t = "str" THEN StrValue(TokensReplaced(obj.chunks, map))
    ELSE IF obj.t \in {"dict", "list"}
    THEN [obj EXCEPT !.kids =
            [i \in 1..Len(obj.kids) |->
                Pair(obj.kids[i].k, Resolved(obj.kids[i].val, map))]]
    ELSE obj

\* The names and values to substitute, the context's value taken first.
ContextFirst == DictUpdate(sv_in.config.kids, sv_in.context.map)
\* The same with the document's value taken first.
DocumentFirst == DictUpdate(sv_in.context.map, sv_in.config.kids)

ExampleDocument ==
    DictValue(<<Pair("root", StrValue(<<"/base">>)),
                Pair("sub", StrValue(<<"${root}", "/data">>))>>)

\* C14: in every string of the document, at any depth of mappings and
\* sequences, each ${name} token whose name is a key of the context or of
\* the document's top level is replaced by the stringified value of that
\* key (whichever of the two defines it), other tokens are left verbatim and
\* non-string scalars are unchanged; {root: "/base", sub: "${root}/data"}
\* yields sub = "/base/data".
C14_Substitution ==
    /\ sv_pc = "done" =>
          sv_out \in {Resolved(sv_in.config, ContextFirst),
                      Resolved(sv_in.config, DocumentFirst)}
    /\ Lookup(substitute_variables(ExampleDocument,
                                   [given |-> FALSE, map |-> <<>>]).returned.kids,
              "sub") = StrValue(<<"/base", "/data">>)

\* No value that can be substituted holds a token itself.
PlainValues ==
    \A map \in {sv_in.context.map, sv_in.config.kids} :
        \A i \in 1..Len(map) :
            \A j \in 1..Len(map[i].val.chunks) :
                map[i].k \in VarNames => map[i].val.chunks[j] \notin Tokens

\* C15: when a name is a key of the explicit context and of the document's
\* top level, its token is replaced by the context's value.
C15_ContextFirst ==
    (sv_pc = "done" /\ sv_in.context.given /\ PlainValues) =>
        sv_out = Resolved(sv_in.config, ContextFirst)


\* C24: substitute_variables(config, context) leaves the caller's config
\* mapping and the caller's context mapping with exactly the keys and values
\* they had before the call.
C24_NoSideEffects ==
    sv_pc = "done" =>
        /\ sv_config = sv_in.config
        /\ sv_context = sv_in.context
-----------------------------------------------------------------------------
(* Properties of check_missing_rate, checked under SpecMissing             *)

\* The columns the call looks at: those named (all when none is named)
\* that the table has.
CheckedColumns ==
    {c \in DOMAIN mr_in.df.cols :
        ~mr_in.columns.given
        \/ \E k \in 1..Len(mr_in.columns.names) : mr_in.columns.names[k] = c}

MissingCount(c) == Cardinality({k \in 1..mr_in.df.n : mr_in.df.cols[c][k] = NaN})

\* The largest number of missing cells in a checked column.
WorstCount ==
    CHOOSE m \in {MissingCount(c) : c \in CheckedColumns} :
        \A c \in CheckedColumns : MissingCount(c) <= m

\* C16: with m the worst missing fraction over the checked columns of a
\* non-empty table and T the threshold, the status is FAIL iff m > T,
\* WARNING iff T/2 < m <= T, and PASS iff m <= T/2; a column missing exactly
\* 20% at T = 0.2 is not FAIL and a column missing 21% is.
C16_MissingStatus ==
    /\ (mr_pc = "done" /\ mr_in.df.n > 0 /\ CheckedColumns # {}) =>
          LET m == WorstCount
              n == mr_in.df.n
              T == mr_in.threshold
          IN  /\ mr_out.status \in {"FAIL", "WARNING", "PASS"}
              /\ mr_out.status = "FAIL" <=> m * T.den > T.num * n
              /\ mr_out.status = "WARNING" <=>
                    (2 * m * T.den > T.num * n /\ m * T.den <= T.num * n)
              /\ mr_out.status = "PASS" <=> 2 * m * T.den <= T.num * n
    /\ ClassifyMissing(Frac(20, 100), Frac(2, 10)) = "WARNING"
    /\ ClassifyMissing(Frac(21, 100), Frac(2, 10)) = "FAIL"

\* One cell of five missing in the worst column, at the threshold 1/5.
C16_Witness ==
    /\ mr_pc = "done"
    /\ mr_in.threshold = Frac(1, 5)
    /\ mr_in.df.n = 5
    /\ CheckedColumns = MrColumnSet
    /\ MissingCount("ManipScore_z") = 0
    /\ MissingCount("OFI_z") = 1
    /\ mr_out.status = "WARNING"

-----------------------------------------------------------------------------
(* Properties of merge_manip_ofi, checked under SpecMerge                  *)

TimesOf(rows) == {rows[k].time : k \in 1..Len(rows)}

\* C17: for two tables whose time indices are each unique, the merged
\* table's time index is unique and ascending, and its row count is the
\* number of timestamps present in both tables.
C17_MergedIndex ==
    (mg_pc = "done" /\ UniqueTimes(mg_manip) /\ UniqueTimes(mg_ofi)) =>
        /\ \A j, k \in 1..Len(mg_out.rows) :
              j < k => mg_out.rows[j].time < mg_out.rows[k].time
        /\ Len(mg_out.rows) = Cardinality(TimesOf(mg_manip) \cap TimesOf(mg_ofi))
        /\ TimesOf(mg_out.rows) = TimesOf(mg_manip) \cap TimesOf(mg_ofi)

\* The ManipScore table lists its rows latest first; two timestamps are
\* in both tables, one only in the OFI table.
C17_Witness ==
    /\ mg_pc = "done"
    /\ Len(mg_manip) = 2
    /\ mg_manip[1].time > mg_manip[2].time
    /\ Len(mg_ofi) = 3
    /\ Len(mg_out.rows) = 2
    /\ mg_out.rows[1].time < mg_out.rows[2].time

-----------------------------------------------------------------------------
(* Properties of build_merged_for_symbol, checked under SpecBuild          *)

StatusOf(check) ==
    LET k == CHOOSE j \in 1..Len(bm_results) : bm_results[j].check = check
    IN  bm_results[k].status

Validated == bm_results # <<>>

\* C18: once both datasets are loaded and merged, the merged table is
\* written to the output file and returned whatever the four checks say;
\* a FAIL is logged as an error and changes nothing else.
C18_PersistedDespiteFail ==
    /\ Validated =>
          /\ bm_pc \in {"save", "returned"}
          /\ bm_results = validate_data_quality(bm_merged)
          /\ \A k \in 1..Len(bm_results) :
                bm_results[k].status = "FAIL" =>
                    \E j \in 1..Len(bm_log) :
                        bm_log[j] = [level |-> "error", about |-> bm_results[k].check]
    /\ bm_pc = "returned" =>
          /\ bm_files = {[path |-> OutputFile(bm_args.symbol), table |-> bm_merged]}
          /\ bm_out = BmReturned(bm_merged)
    /\ bm_pc = "raised" =>
          /\ ~Validated
          /\ bm_files = {}
          /\ bm_out.kind = "FileNotFoundError"

\* All four checks FAIL and the table is in the output file.
C18_Witness ==
    /\ bm_pc = "returned"
    /\ Validated
    /\ \A k \in 1..Len(bm_results) : bm_results[k].status = "FAIL"
    /\ bm_merged.n > 0
    /\ \E f \in bm_files : f.table = bm_merged

-----------------------------------------------------------------------------
(* Properties of the merged-data build CLI, checked under SpecCli          *)

StatusFor(outcome) ==
    IF outcome = "returned" THEN "SUCCESS"
    ELSE IF outcome = "FileNotFoundError" THEN "FAILED"
    ELSE "ERROR"

\* The last attempt made for a symbol.
LastAttempt(symbol) ==
    CHOOSE k \in 1..Len(cl_attempts) :
        /\ cl_attempts[k].symbol = symbol
        /\ \A j \in (k + 1)..Len(cl_attempts) : cl_attempts[j].symbol # symbol

\* C19: every symbol is attempted, in the configured order, whatever
\* happened to the earlier ones; a symbol whose data is missing ends FAILED
\* and one with any other exception ends ERROR; the exit code is 0 if every
\* symbol ended SUCCESS and 1 otherwise.
C19_BatchExitCode ==
    /\ \A k \in 1..Len(cl_attempts) : cl_attempts[k].symbol = cl_symbols[k]
    /\ DOMAIN cl_results = {cl_attempts[k].symbol : k \in 1..Len(cl_attempts)}
    /\ \A s \in DOMAIN cl_results :
          cl_results[s] = StatusFor(cl_attempts[LastAttempt(s)].outcome)
    /\ cl_pc = "exited" =>
          /\ Len(cl_attempts) = Len(cl_symbols)
          /\ cl_exit \in {0, 1}
          /\ cl_exit = 0 <=> \A s \in DOMAIN cl_results : cl_results[s] = "SUCCESS"

-----------------------------------------------------------------------------
(* Properties of the fine-grid batch orchestrator, under SpecFineGrid      *)

\* The subprocesses the command line asks for, in order: for each symbol
\* the filter grid, then the score grid.
RECURSIVE Plan(_, _)
Plan(symbols, mode) ==
    IF symbols = <<>> THEN <<>>
    ELSE (IF mode \in {"filter", "both"} THEN <<Job(Head(symbols), "filter")>> ELSE <<>>)
         \o (IF mode \in {"score", "both"} THEN <<Job(Head(symbols), "score")>> ELSE <<>>)
         \o Plan(Tail(symbols), mode)

FgPlan == Plan(fg_args.symbols, fg_args.mode)

StartEvents == SelectSeq(fg_events, LAMBDA e : e.ev = "start")
ExitEvents == SelectSeq(fg_events, LAMBDA e : e.ev = "exit")

\* The exit status last recorded for a job is that of its latest exit.
RecordedStatus(k) ==
    LET job == fg_events[k].job
        later == {j \in (k + 1)..Len(fg_events) :
                     fg_events[j].ev = "exit" /\ fg_events[j].job = job}
    IN  later = {} =>
            /\ job.symbol \in DOMAIN fg_results[job.grid]
            /\ fg_results[job.grid][job.symbol] = (fg_events[k].returncode = 0)

\* C20: at most one grid-search subprocess runs at any time; subprocesses
\* are started in symbol order, filter before score; each has exited and
\* its status is recorded before the next is started; a non-zero exit does
\* not keep any later subprocess from being started.
C20_OneAtATime ==
    /\ Cardinality(fg_running) <= 1
    /\ \A k \in 1..Len(fg_events) :
          IF k % 2 = 1
          THEN /\ fg_events[k].ev = "start"
               /\ fg_events[k].job = FgPlan[(k + 1) \div 2]
          ELSE /\ fg_events[k].ev = "exit"
               /\ fg_events[k].job = fg_events[k - 1].job
               /\ RecordedStatus(k)
    /\ fg_running = IF Len(fg_events) % 2 = 1
                    THEN {fg_events[Len(fg_events)].job} ELSE {}
    /\ Len(StartEvents) <= Len(FgPlan)
    /\ fg_pc = "done" =>
          /\ Len(StartEvents) = Len(FgPlan)
          /\ Len(ExitEvents) = Len(FgPlan)

\* Mode 'both' on two symbols: the first filter grid exits non-zero and
\* the three later subprocesses are still started, one after the other.
C20_Witness ==
    /\ fg_pc = "done"
    /\ fg_args.mode = "both"
    /\ fg_args.symbols = <<"BTCUSD", "ETHUSD">>
    /\ Len(fg_events) = 8
    /\ fg_events[2].returncode = 1
    /\ fg_events[7] = Started(Job("ETHUSD", "score"))

-----------------------------------------------------------------------------
(* The entry rule and the termination of the backtest loop                 *)

\* Bars (0-based) the cursor has passed.
ScannedBars == {i \in 0..(Len(bt_df) - 1) : i < bt_i}

EntryBars == {bt_trades[k].entry_idx : k \in TradeIndices}

NonZeroBars == {i \in 0..(Len(bt_df) - 1) : Bar(i).signal # 0}

\* The bar at which a trade entered at bar e is closed: min(e + h, N - 1).
HeldUntil(e) == Min2(e + bt_hold, Len(bt_df) - 1)

\* Bar i lies after the exit bar of every trade entered before it.
AfterEarlierExits(i) ==
    \A k \in TradeIndices :
        bt_trades[k].entry_idx < i => i > HeldUntil(bt_trades[k].entry_idx)

\* C27: with holding_bars >= 0 a trade is opened at bar i if and only if
\* signal[i] is non-zero and i is strictly after the exit bar of every earlier
\* trade; every bar with a non-zero signal is an entry bar or lies in
\* (entry, exit] of an earlier trade; and there are never more trades than
\* bars with a non-zero signal.
C27_EntryRule ==
    (bt_pc \in {"loop", "done"} /\ bt_hold >= 0) =>
        /\ EntryBars \subseteq ScannedBars
        /\ \A i \in ScannedBars :
              /\ i \in EntryBars <=> (Bar(i).signal # 0 /\ AfterEarlierExits(i))
              /\ Bar(i).signal # 0 =>
                    \/ i \in EntryBars
                    \/ \E k \in TradeIndices :
                          /\ bt_trades[k].entry_idx < i
                          /\ i <= bt_trades[k].exit_idx
        /\ Len(bt_trades) = Cardinality(EntryBars)
        /\ Len(bt_trades) <= Cardinality(NonZeroBars)

\* A finished run in which a non-zero signal on the exit bar of a trade was
\* ignored and a later non-zero signal opened the next trade.
C27_Witness ==
    /\ bt_pc = "done"
    /\ bt_hold >= 1
    /\ Len(bt_trades) = 2
    /\ LET x == bt_trades[1].exit_idx
       IN  /\ x > bt_trades[1].entry_idx
           /\ Bar(x).signal # 0
           /\ x \notin EntryBars
           /\ bt_trades[2].entry_idx = x + 1

\* One iteration of the loop: the cursor moves forward, by one on a zero
\* signal and to the bar after the exit bar on a trade.
CursorAdvances ==
    (bt_pc = "loop" /\ bt_pc' = "loop" /\ bt_i < Len(bt_df)) =>
        /\ bt_i' > bt_i
        /\ bt_i' <= Len(bt_df)
        /\ Bar(bt_i).signal = 0 => bt_i' = bt_i + 1
        /\ Bar(bt_i).signal # 0 => bt_i' = HeldUntil(bt_i) + 1

\* The call has returned (or raised) and the cursor is past the last bar.
LoopEnded == bt_pc = "done" /\ bt_i >= Len(bt_df)

\* C28: the loop terminates for every finite table and every holding_bars
\* >= 0: the cursor strictly increases on every iteration (by 1 on a zero
\* signal, to exit index + 1 on a trade), so that after at most N iterations
\* the loop has ended with the cursor >= N.
C28_Terminates == [][CursorAdvances]_vars /\ <>LoopEnded

\* A run of three bars ended by a flat step, a trade and the final step.
C28_Witness ==
    /\ bt_pc = "done"
    /\ Len(bt_df) = 3
    /\ bt_i = 3
    /\ Len(bt_trades) = 1
    /\ bt_trades[1].entry_idx = 1
    /\ bt_hold = 0
-----------------------------------------------------------------------------
(* Properties of select_plateau_params, checked under SpecSelect           *)

KnownStrategies == {"plateau", "top_k", "adaptive"}

\* The strategy the call works with: the configured one, or the default.
StrategyUsed ==
    IF sp_in.config.selection_strategy = "" THEN DefaultStrategy
    ELSE sp_in.config.selection_strategy

\* The table has the columns run_train_grid_search gives its result.
IsTrainResultTable ==
    {"z_threshold", "hold_bars", "sharpe", "n_trades"} \subseteq sp_in.table.cols

\* C25: select_plateau_params fails with an invalid-input error for every
\* selection_strategy other than 'plateau', 'top_k' and 'adaptive', for
\* every train result table.
C25_UnknownStrategy ==
    (/\ sp_pc = "done"
     /\ IsTrainResultTable
     /\ StrategyUsed \notin KnownStrategies) =>
        /\ sp_out.kind = "raise"
        /\ sp_out.exc = "ValueError"
-----------------------------------------------------------------------------
(* Properties of the grid sweeps, checked under SpecSweep                  *)

SweepEnded == sw_pc \in {"done", "raised"}

\* C21: in every grid sweep a failure of signal generation or of the
\* backtest for one parameter combination is caught for that combination
\* and recorded as a neutral row (sharpe = 0, n_trades = 0), so the sweep
\* always finishes with exactly as many rows as parameter combinations.
C21_NeutralRows ==
    /\ sw_pc # "raised"
    /\ SweepEnded =>
          /\ Len(sw_results) = sw_in.n_combos
          /\ \A k \in 1..Len(sw_results) : sw_results[k].combo = k
          /\ \A k \in sw_failed : sw_results[k] = NeutralRow(k)
-----------------------------------------------------------------------------
(* Properties of with_log_level, checked under SpecLogLevel                *)

\* C22: entering with_log_level(logger, level) on a logger with level L sets
\* the logger's level to the new level for the duration of the block; on
\* leaving the block, normally or by an exception, the level is L again; and
\* properly nested blocks restore each outer level in turn.
C22_LevelRestored ==
    /\ ll_stack # <<>> => ll_level = Innermost.new_level
    /\ ll_stack = <<>> => ll_level = ll_in
    /\ ll_last.op \in {"exit", "raise"} => ll_level = ll_last.level
    /\ Len(ll_before) = Len(ll_stack)
    /\ \A k \in 1..Len(ll_stack) :
          ll_before[k] = (IF k = 1 THEN ll_in ELSE ll_stack[k - 1].new_level)

\* An exception left an inner block at DEBUG inside an outer block at
\* WARNING on a logger at INFO: the level is WARNING again.
C22_Witness ==
    /\ ll_in = 20
    /\ ll_pc = "raising"
    /\ Len(ll_stack) = 1
    /\ ll_stack[1].new_level = 30
    /\ ll_last = LastStep("raise", 30)
    /\ ll_level = 30
-----------------------------------------------------------------------------
(* Properties of the two normalize functions, checked under SpecNormalize  *)

TimeColumnDetected == detect_time_column(nz_in.df) # "ValueError"

Ascending(times) == \A k \in 1..(Len(times) - 1) : times[k] <= times[k + 1]

\* C23: for every input table in which a time column is detected, whatever
\* the order of its rows, normalize_ofi_columns and normalize_manip_columns
\* return a table whose index is named 'time' and is sorted ascending.
C23_SortedTimeIndex ==
    (nz_pc = "done" /\ TimeColumnDetected) =>
        /\ nz_out.kind = "return"
        /\ nz_out.index_name = "time"
        /\ Ascending(nz_out.index)
-----------------------------------------------------------------------------
(* Properties of the single-factor signal generators, under SpecView       *)

RecognizedDirections ==
    [manip |-> {"reversal", "continuation"}, ofi |-> {"momentum", "reversal"}]

\* C26: compute_manip_signal and compute_ofi_signal fail with an
\* invalid-input error for every unrecognized direction, for every input
\* table, one that lacks the factor's z-score column included.
C26_UnknownDirection ==
    (vw_pc = "done" /\ vw_in.direction \notin RecognizedDirections[vw_in.which]) =>
        /\ vw_out.kind = "raise"
        /\ vw_out.exc = "ValueError"
-----------------------------------------------------------------------------
(* Properties of generate_recommendations, checked under SpecRecommend     *)

\* The core combination's test drawdown is a value compute_max_drawdown
\* produced from a non-empty curve: a fraction <= 0.
TestDrawdown == compute_max_drawdown(rc_in.curve)
HasTestDrawdown == rc_in.core_given /\ Len(rc_in.curve) >= 1

\* |TestDrawdown| > max_test_drawdown
DrawdownExceeds ==
    (-TestDrawdown.num) * rc_in.max_test_drawdown.den
        > rc_in.max_test_drawdown.num * TestDrawdown.den

Recommended(tag) == \E k \in 1..Len(rc_out) : rc_out[k] = tag

\* C30: generate_recommendations emits 'Drawdown high' whenever the
\* magnitude of the core combination's test maximum drawdown exceeds
\* max_test_drawdown, and 'Drawdown acceptable' only when the magnitude is
\* at most max_test_drawdown.
C30_DrawdownHigh ==
    (rc_pc = "done" /\ HasTestDrawdown) =>
        /\ TestDrawdown.den > 0
        /\ TestDrawdown.num <= 0
        /\ DrawdownExceeds => Recommended("drawdown_high")
        /\ Recommended("drawdown_acceptable") => ~DrawdownExceeds
====
